---- MODULE Spec2Model ----
(***************************************************************************)
(* Matching, grouping and highlight rendering of the mathematicon search   *)
(* backend: SearchService (services/search_service.py) and MathtagSearch   *)
(* (models/mathtag_search.py).                                             *)
(*                                                                         *)
(* Python indices are kept 0-based as in the source; a Python list l is a  *)
(* TLA+ sequence, so l[k] in the source is l[k + 1] here.                  *)
(***************************************************************************)
EXTENDS Integers, Sequences, FiniteSets, Bags, TLC

VARIABLES
    \* SearchService.find_pattern_in_target: arguments, locals, position
    pattern, target, max_skips, i, p, skips, matches, match_, pc, result,
    \* SearchService._construct_search_result: the query and the colours of one sentence
    query_info, tokens_color,
    \* SearchService._html_tokens_generator: arguments, the spans it yields, position
    tokens, colors, html_tokens, render_pc,
    \* MathtagSearch.find_tag_descendants: the rows of the ontology, the argument,
    \* the locals, the traversal of nx.descendants, position
    math_ontology, tag_id, mathtag_tree, descendants, visited, queue, expanded, onto_pc,
    \* MathtagSearch.find_intersecting_annotations: argument, result, position
    annotations, grouped_annotations, group_pc,
    \* MathtagSearch.create_html_sent: result, position
    html_sentences, tag_pc,
    \* TFIDFRerankingModel.rank: the argument as passed, the vectorizer's scores, the weight, the argument object, position
    candidates, lexical, tfidf_weight, ranked_formulas, rank_pc,
    \* FormulaSearchService.search: the embedding store's ranking, the arguments, the reranker and its vectorizer's scores, result, position
    collection, top_n, threshold, reranker, fs_lexical, formula_annotations, fs_pc,
    \* AnnotationRepository and FormulaAnnotationService.add_formula_annotation: the annot_fragment table, its AUTOINCREMENT counter, the repository's connection, the last repository call, the embedding collection, the argument, the collaborator failure met, the outcome, position
    annot_fragment, annot_seq, annot_conn, repo_last, embeddings, fa_fragment, fa_failure, fa_outcome, fa_pc,
    \* SearchService.lemmaSearch / exactMatchSearch: the query's words, the stored sentences, the candidates, the sentences given to the colourizer, the outcome, position
    cs_query, cs_store, found_sents, cs_colored, cs_result, cs_pc,
    \* UserRepository.update_history: the user_history table, its AUTOINCREMENT counter, the arguments of the last call, position
    user_history, uh_seq, uh_last, uh_pc,
    \* Two requests over the one UserRepository of app.py: its conn attribute, the connections opened and closed, and per thread its position, the connection it loaded, its pending exception, its result and the requests it has started
    ur_conn, ur_opened, ur_closed, req_pc, req_local, req_exc, req_result, req_count,
    \* TranscriptRepository.sentence_context: the table sents, the sentence asked about, the pair returned, position
    sents, ctx_sentence, ctx_result, ctx_pc,
    \* LectureRepository.add_lecture: the tables and counters of the lecture store, the arguments and outcome of the last call, position
    lec_db, lec_last, lec_pc,
    \* UserService.personalise_search_results: the results given, the ids of the user's favourites, the list returned, position
    search_results, fav_sents, fav_sorted, per_pc

matcherVars == <<pattern, target, max_skips, i, p, skips, matches, match_, pc, result>>
colorVars == <<query_info, tokens_color>>
renderVars == <<tokens, colors, html_tokens, render_pc>>

ontologyVars == <<math_ontology, tag_id, mathtag_tree, descendants, visited, queue, expanded, onto_pc>>

groupVars == <<annotations, grouped_annotations, group_pc>>

tagVars == <<html_sentences, tag_pc>>
rankVars == <<candidates, lexical, tfidf_weight, ranked_formulas, rank_pc>>
formulaSearchVars == <<collection, top_n, threshold, reranker, fs_lexical, formula_annotations, fs_pc>>
annotVars == <<annot_fragment, annot_seq, annot_conn, repo_last, embeddings, fa_fragment, fa_failure, fa_outcome, fa_pc>>
constructVars == <<cs_query, cs_store, found_sents, cs_colored, cs_result, cs_pc>>
historyVars == <<user_history, uh_seq, uh_last, uh_pc>>
threadVars == <<ur_conn, ur_opened, ur_closed, req_pc, req_local, req_exc, req_result, req_count>>
contextVars == <<sents, ctx_sentence, ctx_result, ctx_pc>>
lectureVars == <<lec_db, lec_last, lec_pc>>
personaliseVars == <<search_results, fav_sents, fav_sorted, per_pc>>

\* The components added after the grouping
extVars == <<tagVars, rankVars, formulaSearchVars, annotVars, constructVars, historyVars, threadVars, contextVars, lectureVars, personaliseVars>>

vars == <<matcherVars, colorVars, renderVars, ontologyVars, groupVars, extVars>>

\* What an operation of one component leaves alone
notSearch == <<renderVars, ontologyVars, groupVars, extVars>>
notRender == <<matcherVars, colorVars, ontologyVars, groupVars, extVars>>
notOntology == <<matcherVars, colorVars, renderVars, groupVars, extVars>>
notGroup == <<matcherVars, colorVars, renderVars, ontologyVars, extVars>>
coreVars == <<matcherVars, colorVars, renderVars, ontologyVars, groupVars>>
notTag == <<coreVars, rankVars, formulaSearchVars, annotVars, constructVars, historyVars, threadVars, contextVars, lectureVars, personaliseVars>>
notRank == <<coreVars, tagVars, formulaSearchVars, annotVars, constructVars, historyVars, threadVars, contextVars, lectureVars, personaliseVars>>
notFormulaSearch == <<coreVars, tagVars, rankVars, annotVars, constructVars, historyVars, threadVars, contextVars, lectureVars, personaliseVars>>
notAnnot == <<coreVars, tagVars, rankVars, formulaSearchVars, constructVars, historyVars, threadVars, contextVars, lectureVars, personaliseVars>>
notConstruct == <<coreVars, tagVars, rankVars, formulaSearchVars, annotVars, historyVars, threadVars, contextVars, lectureVars, personaliseVars>>
notHistory == <<coreVars, tagVars, rankVars, formulaSearchVars, annotVars, constructVars, threadVars, contextVars, lectureVars, personaliseVars>>
notThreads == <<coreVars, tagVars, rankVars, formulaSearchVars, annotVars, constructVars, historyVars, contextVars, lectureVars, personaliseVars>>
notContext == <<coreVars, tagVars, rankVars, formulaSearchVars, annotVars, constructVars, historyVars, threadVars, lectureVars, personaliseVars>>
notLecture == <<coreVars, tagVars, rankVars, formulaSearchVars, annotVars, constructVars, historyVars, threadVars, contextVars, personaliseVars>>
notPersonalise == <<coreVars, tagVars, rankVars, formulaSearchVars, annotVars, constructVars, historyVars, threadVars, contextVars, lectureVars>>

(***************************************************************************)
(* Bounds of the model.                                                    *)
(***************************************************************************)
MaxPatternLen == 3
MaxTargetLen == 5
MaxSkipsArg == 1
MaxTokens == 3
MaxTags == 3
MaxAnnotations == 3
MaxOffset == 3
MaxCandidates == 3
MaxFragmentId == 3
MaxSentenceLen == 4
MaxHistoryId == 4
MaxRequests == 2
MaxPosInText == 2
MaxResults == 3

(***************************************************************************)
(* Generic helpers.                                                        *)
(***************************************************************************)
SeqsUpTo(S, n) == UNION {[1..k -> S] : k \in 0..n}

Range(q) == {q[k] : k \in 1..Len(q)}

\* Python's None
None == [cls |-> "NoneType"]

\* A Python list held where the code may also hold None or raise
PyList(l) == [cls |-> "list", items |-> l]

\* A Python str held where the code may also hold another object
PyStr(s) == [cls |-> "str", value |-> s]

\* A Python int held where the code may also raise
PyInt(n) == [cls |-> "int", value |-> n]

\* An exception raised instead of a value
Raised(e) == [cls |-> "raised", exception |-> e]

(***************************************************************************)
(* models/html_models.py: the dataclasses of the rendered output.  A       *)
(* constructor takes its keyword arguments as a record; a keyword that is  *)
(* no field of the dataclass raises TypeError.                             *)
(***************************************************************************)
HTMLSpanFields == {"text", "html_type", "color"}

HTMLWordFields == HTMLSpanFields \cup {"pos", "lemma"}

Field(kwargs, name, default) == IF name \in DOMAIN kwargs THEN kwargs[name] ELSE default

HTMLSpan(kwargs) ==
    IF "text" \notin DOMAIN kwargs \/ ~(DOMAIN kwargs \subseteq HTMLSpanFields)
    THEN Raised("TypeError")
    ELSE [cls |-> "HTMLSpan",
          text |-> kwargs.text,
          html_type |-> Field(kwargs, "html_type", "plain"),
          color |-> Field(kwargs, "color", PyStr("black"))]

HTMLWord(kwargs) ==
    IF "text" \notin DOMAIN kwargs \/ ~(DOMAIN kwargs \subseteq HTMLWordFields)
    THEN Raised("TypeError")
    ELSE [cls |-> "HTMLWord",
          text |-> kwargs.text,
          html_type |-> Field(kwargs, "html_type", "tooltip"),
          color |-> Field(kwargs, "color", PyStr("black")),
          pos |-> Field(kwargs, "pos", None),
          lemma |-> Field(kwargs, "lemma", None)]

\* Words a query is made of, and the words a sentence may hold besides them.
QueryWords == {"a", "b"}
SentenceWords == QueryWords \cup {"x"}

(***************************************************************************)
(* SearchService.find_pattern_in_target(pattern, target, max_skips)        *)
(* One action per path through the body of the for loop.                   *)
(***************************************************************************)
\* SearchService._create_query_info: one HTMLWord per query token, all green.
\* The annotator gives a query word itself as its text and lemma.
CreateQueryInfo(words) ==
    [tokens |-> [k \in 1..Len(words) |->
                    HTMLWord([text |-> words[k], html_type |-> "plain", pos |-> "NOUN",
                              lemma |-> words[k], color |-> PyStr("green")])],
     formula |-> None]

MatcherIdle ==
    /\ pattern = <<>> /\ target = <<>> /\ max_skips = 0
    /\ i = 0 /\ p = 0 /\ skips = 0
    /\ matches = <<>> /\ match_ = <<>>
    /\ pc = "idle" /\ result = None
    /\ query_info = CreateQueryInfo(<<>>) /\ tokens_color = None

\* find_pattern_in_target lines 24-27: the locals before the loop.  The pattern
\* is the lemmas (or texts) of the query tokens, _match_query_in_sentence 99-105.
MatcherInit ==
    /\ pattern \in SeqsUpTo(QueryWords, MaxPatternLen)
    /\ target \in SeqsUpTo(SentenceWords, MaxTargetLen)
    /\ max_skips \in 0..MaxSkipsArg
    /\ i = 0 /\ p = 0 /\ skips = 0
    /\ matches = <<>> /\ match_ = <<>>
    /\ pc = "loop" /\ result = None
    /\ query_info = CreateQueryInfo(pattern) /\ tokens_color = None

InLoop == pc = "loop" /\ i < Len(target)

\* line 29: pattern[p] == target[i]; pattern[p] raises IndexError on an empty pattern
ElementsMatched == pattern[p + 1] = target[i + 1]

\* line 30
SkipsAllowedStrict(s, m) == s < m

\* (no limit on the skips)
SkipsAllowedAlways(s, m) == TRUE

SkipsAllowed(s, m) == s <= m

\* line 29, pattern[p] with p out of range
PatternIndexError ==
    /\ InLoop
    /\ p >= Len(pattern)
    /\ pc' = "IndexError"
    /\ UNCHANGED <<pattern, target, max_skips, i, p, skips, matches, match_, result, query_info, tokens_color>>
    /\ UNCHANGED notSearch

\* lines 31-37
FullMatch ==
    /\ InLoop
    /\ p < Len(pattern)
    /\ ElementsMatched
    /\ SkipsAllowed(skips, max_skips)
    /\ p = Len(pattern) - 1
    /\ matches' = Append(matches, Append(match_, i))
    /\ match_' = <<>>
    /\ p' = 0
    /\ skips' = 0
    /\ i' = i + 1
    /\ UNCHANGED <<pattern, target, max_skips, pc, result, query_info, tokens_color>>
    /\ UNCHANGED notSearch

\* lines 38-40: skips keeps its value
PartialMatch ==
    /\ InLoop
    /\ p < Len(pattern)
    /\ ElementsMatched
    /\ SkipsAllowed(skips, max_skips)
    /\ p # Len(pattern) - 1
    /\ match_' = Append(match_, i)
    /\ p' = p + 1
    /\ i' = i + 1
    /\ UNCHANGED <<pattern, target, max_skips, skips, matches, pc, result, query_info, tokens_color>>
    /\ UNCHANGED notSearch

\* lines 41-45: the element that matched is not appended
TooManySkips ==
    /\ InLoop
    /\ p < Len(pattern)
    /\ ElementsMatched
    /\ ~SkipsAllowed(skips, max_skips)
    /\ match_' = <<>>
    /\ p' = 0
    /\ skips' = 0
    /\ i' = i + 1
    /\ UNCHANGED <<pattern, target, max_skips, matches, pc, result, query_info, tokens_color>>
    /\ UNCHANGED notSearch

\* lines 46-48
NonMatching ==
    /\ InLoop
    /\ p < Len(pattern)
    /\ ~ElementsMatched
    /\ skips' = (IF match_ # <<>> THEN skips + 1 ELSE skips)
    /\ i' = i + 1
    /\ UNCHANGED <<pattern, target, max_skips, p, matches, match_, pc, result, query_info, tokens_color>>
    /\ UNCHANGED notSearch

\* lines 49-51
MatcherReturn ==
    /\ pc = "loop"
    /\ i = Len(target)
    /\ result' = (IF matches # <<>> THEN PyList(matches) ELSE None)
    /\ pc' = "done"
    /\ UNCHANGED <<pattern, target, max_skips, i, p, skips, matches, match_, query_info, tokens_color>>
    /\ UNCHANGED notSearch

(***************************************************************************)
(* SearchService._color_tokens(tokens, query_info, matches); the loop      *)
(* reads of tokens only their number n.  ColorLoop is the loop from        *)
(* position k on with the pointers mp, qp and the list built so far.       *)
(***************************************************************************)
RECURSIVE ColorLoop(_, _, _, _, _, _, _)
ColorLoop(n, qi, ms, k, mp, qp, token_colors) ==
    IF k >= n THEN PyList(token_colors)                             \* line 127
    ELSE IF mp >= Len(ms) \/ qp >= Len(ms[mp + 1]) THEN Raised("IndexError")
    ELSE IF k = ms[mp + 1][qp + 1]                                   \* line 118
         THEN IF qp >= Len(qi.tokens) THEN Raised("IndexError")
              ELSE LET appended == Append(token_colors, qi.tokens[qp + 1])   \* line 119
                   IN  IF qp + 1 = Len(ms[mp + 1])                   \* line 121
                       THEN IF mp + 1 = Len(ms)                      \* line 124
                            THEN PyList(appended \o [j \in 1..(n - (k + 1)) |-> PyStr("black")])
                            ELSE ColorLoop(n, qi, ms, k + 1, mp + 1, 0, appended)
                       ELSE ColorLoop(n, qi, ms, k + 1, mp, qp + 1, appended)
         ELSE ColorLoop(n, qi, ms, k + 1, mp, qp, token_colors)

ColorTokens(n, qi, ms) == ColorLoop(n, qi, ms, 0, 0, 0, <<>>)

\* _construct_search_result lines 149-153: a sentence with matches is coloured
ConstructColors ==
    /\ pc = "done"
    /\ result # None
    /\ tokens_color' = ColorTokens(Len(target), query_info, result.items)
    /\ pc' = "colored"
    /\ UNCHANGED <<pattern, target, max_skips, i, p, skips, matches, match_, result, query_info>>
    /\ UNCHANGED notSearch

SearchNext ==
    \/ PatternIndexError
    \/ FullMatch
    \/ PartialMatch
    \/ TooManySkips
    \/ NonMatching
    \/ MatcherReturn
    \/ ConstructColors

(***************************************************************************)
(* SearchService._html_tokens_generator(tokens, colors), consumed whole by *)
(* list(...) in _create_html_sentence line 136.                            *)
(***************************************************************************)
Min(a, b) == IF a <= b THEN a ELSE b

\* model.Token: the fields the renderer reads.  The annotator gives a word
\* itself as its lemma; offsets are those of a token in its sentence.
Token(text, pos, ws, position, start) ==
    [token_text |-> text, whitespace |-> ws, pos_tag |-> pos, lemma |-> text,
     position_in_sentence |-> position,
     char_offset_start |-> start, char_offset_end |-> start + Len(text)]

\* What the annotator says of one token: text, part of speech, trailing space
TokenShapes == {<<"w", "NOUN">>, <<"v", "VERB">>, <<",", "PUNCT">>} \X BOOLEAN

\* The tokens of a sentence from their shapes, offsets running through the text
RECURSIVE Tokenize(_, _, _)
Tokenize(shapes, k, start) ==
    IF k > Len(shapes) THEN <<>>
    ELSE LET text == shapes[k][1][1]
             ws == shapes[k][2]
         IN  <<Token(text, shapes[k][1][2], ws, k - 1, start)>>
             \o Tokenize(shapes, k + 1, start + Len(text) + (IF ws THEN 1 ELSE 0))

ColorNames == {PyStr("black"), PyStr("green")}

RenderIdle ==
    /\ tokens = <<>> /\ colors = <<>> /\ html_tokens = None /\ render_pc = "idle"

RenderInit ==
    /\ \E shapes \in SeqsUpTo(TokenShapes, MaxTokens) : tokens = Tokenize(shapes, 1, 0)
    /\ colors \in [1..Len(tokens) -> ColorNames]
    /\ html_tokens = None
    /\ render_pc = "call"

\* The loop of lines 78-92 from the k-th (token, color) pair of zip on, with the
\* text of plain_token and the spans yielded so far.  A constructor that raises
\* ends the generator, and list(...) passes the exception on.
RECURSIVE HtmlTokensLoop(_, _, _, _, _)
HtmlTokensLoop(toks, cols, k, plain_text, yielded) ==
    IF k > Min(Len(toks), Len(cols)) THEN PyList(yielded)       \* zip is exhausted
    ELSE LET token == toks[k]
             whitespace == IF token.whitespace THEN " " ELSE ""          \* line 91
         IN  IF token.pos_tag # "PUNCT"                                   \* line 79
             THEN LET flushed == IF plain_text # ""                       \* lines 80-82
                                 THEN Append(yielded, HTMLSpan([text |-> plain_text]))
                                 ELSE yielded
                      word == HTMLWord([text |-> token.token_text,        \* lines 83-88
                                        pos |-> token.pos_tag,
                                        lemma |-> token.lemma,
                                        char_start_ |-> token.char_offset_start,
                                        char_end_ |-> token.char_offset_end,
                                        color |-> cols[k]])
                  IN  IF word.cls = "raised" THEN word
                      ELSE HtmlTokensLoop(toks, cols, k + 1, whitespace, Append(flushed, word))
             ELSE HtmlTokensLoop(toks, cols, k + 1,                       \* lines 90, 92
                                 plain_text \o token.token_text \o whitespace, yielded)

HtmlTokensGenerator(toks, cols) == HtmlTokensLoop(toks, cols, 1, "", <<>>)

\* list(self._html_tokens_generator(sentence.tokens, token_colors))
RenderTokens ==
    /\ render_pc = "call"
    /\ html_tokens' = HtmlTokensGenerator(tokens, colors)
    /\ render_pc' = "returned"
    /\ UNCHANGED <<tokens, colors>>
    /\ UNCHANGED notRender

RenderNext == RenderTokens

(***************************************************************************)
(* MathtagSearch.find_tag_descendants(tag_id).                             *)
(*                                                                         *)
(* The math_tags table (models/database.py, add_nodes and add_edges) holds *)
(* one row per tag: its id, a positive integer, and the id of its parent,  *)
(* NULL for the root.  get_math_ontology lists the rows as (parent_id, id).*)
(***************************************************************************)
\* NULL, None: the parent of the root (tag ids start at 1)
NoParent == 0

TagIds == 1..(MaxTags + 1)

\* The orders n rows may come in
RowOrders(n) == {f \in [1..n -> 1..n] : \A a, b \in 1..n : f[a] = f[b] => a = b}

\* The lists get_math_ontology may return: n tags, one of them the root,
\* every other with a parent among the tags, the rows in any order.
MathOntologies ==
    UNION {UNION {UNION {
        {[k \in 1..n |-> <<(IF order[k] = root THEN NoParent ELSE parent[order[k]]), order[k]>>] :
            order \in RowOrders(n)} :
        parent \in [(1..n) \ {root} -> 1..n]} :
        root \in 1..n} :
        n \in 1..MaxTags}

OntologyIdle ==
    /\ math_ontology = <<>> /\ tag_id = 0 /\ mathtag_tree = <<>>
    /\ descendants = {} /\ visited = {} /\ queue = <<>>
    /\ expanded = [n \in {NoParent} \cup TagIds |-> 0]
    /\ onto_pc = "idle"

OntologyInit ==
    /\ math_ontology \in MathOntologies
    /\ tag_id \in TagIds
    /\ mathtag_tree = <<>>
    /\ descendants = {} /\ visited = {} /\ queue = <<>>
    /\ expanded = [n \in {NoParent} \cup TagIds |-> 0]
    /\ onto_pc = "call"

\* l[1:]
DropFirst(l) == IF l = <<>> THEN <<>> ELSE Tail(l)

\* The nodes of nx.DiGraph(edges): every end of every edge
GraphNodes(edges) == {edges[k][1] : k \in 1..Len(edges)} \cup {edges[k][2] : k \in 1..Len(edges)}

\* The successors of n, in the order the edges were added
Successors(edges, n) ==
    LET out == SelectSeq(edges, LAMBDA e : e[1] = n)
    IN  [k \in 1..Len(out) |-> out[k][2]]

\* (a traversal that keeps no record of the nodes it has met)
NotVisitedYetUnchecked(succ, seen) == succ

\* The successors the traversal has not met yet
NotVisitedYet(succ, seen) == SelectSeq(succ, LAMBDA c : c \notin seen)

\* line 17: set.union returns a new set, which the statement drops; the set
\* it is called on stays as it was.
UnionStatement(d, found) == d

\* lines 14-16: the locals, and the graph of all rows but the first
BuildGraph ==
    /\ onto_pc = "call"
    /\ descendants' = {tag_id}
    /\ mathtag_tree' = DropFirst(math_ontology)
    /\ onto_pc' = "graph"
    /\ UNCHANGED <<math_ontology, tag_id, visited, queue, expanded>>
    /\ UNCHANGED notOntology

\* line 16 with a networkx that refuses None as a node (ValueError)
GraphRejectsNone ==
    /\ onto_pc = "call"
    /\ NoParent \in GraphNodes(DropFirst(math_ontology))
    /\ descendants' = {tag_id}
    /\ onto_pc' = "ValueError"
    /\ UNCHANGED <<math_ontology, tag_id, mathtag_tree, visited, queue, expanded>>
    /\ UNCHANGED notOntology

\* line 17, nx.descendants: a source that is no node of the graph raises
SourceNotInGraph ==
    /\ onto_pc = "graph"
    /\ tag_id \notin GraphNodes(mathtag_tree)
    /\ onto_pc' = "NetworkXError"
    /\ UNCHANGED <<math_ontology, tag_id, mathtag_tree, descendants, visited, queue, expanded>>
    /\ UNCHANGED notOntology

\* line 17, nx.descendants: the breadth-first traversal starts at the source
BfsStart ==
    /\ onto_pc = "graph"
    /\ tag_id \in GraphNodes(mathtag_tree)
    /\ visited' = {tag_id}
    /\ queue' = <<tag_id>>
    /\ onto_pc' = "bfs"
    /\ UNCHANGED <<math_ontology, tag_id, mathtag_tree, descendants, expanded>>
    /\ UNCHANGED notOntology

\* line 17, nx.descendants: the next node is expanded
BfsExpand ==
    /\ onto_pc = "bfs"
    /\ queue # <<>>
    /\ LET n == Head(queue)
           new == NotVisitedYet(Successors(mathtag_tree, n), visited)
       IN  /\ visited' = visited \cup Range(new)
           /\ queue' = Tail(queue) \o new
           /\ expanded' = [expanded EXCEPT ![n] = @ + 1]
    /\ UNCHANGED <<math_ontology, tag_id, mathtag_tree, descendants, onto_pc>>
    /\ UNCHANGED notOntology

\* lines 17-18: nx.descendants returns the nodes met, the source left out;
\* descendants.union(...) is evaluated and descendants is returned
UnionAndReturn ==
    /\ onto_pc = "bfs"
    /\ queue = <<>>
    /\ descendants' = UnionStatement(descendants, visited \ {tag_id})
    /\ onto_pc' = "returned"
    /\ UNCHANGED <<math_ontology, tag_id, mathtag_tree, visited, queue, expanded>>
    /\ UNCHANGED notOntology

OntologyNext ==
    \/ BuildGraph
    \/ GraphRejectsNone
    \/ SourceNotInGraph
    \/ BfsStart
    \/ BfsExpand
    \/ UnionAndReturn

(***************************************************************************)
(* MathtagSearch.find_intersecting_annotations(annotations).  A row is     *)
(* (sentence id, entity id, token ids, colours, char_start, char_end); the *)
(* function reads fields 0, 4 and 5.                                       *)
(***************************************************************************)
SentenceIds == {1, 2}

\* The rows a listing may hold: a span of one of the sentences
AnnotationRows ==
    {r \in SentenceIds \X {1} \X {""} \X {""} \X (0..MaxOffset) \X (0..MaxOffset) : r[5] < r[6]}

GroupIdle ==
    /\ annotations = <<>> /\ grouped_annotations = <<>> /\ group_pc = "idle"

GroupInit ==
    /\ annotations \in SeqsUpTo(AnnotationRows, MaxAnnotations)
    /\ grouped_annotations = <<>>
    /\ group_pc = "call"

\* (spans that only touch do not intersect)
IntersectStrict(offsets1, offsets2) ==
    offsets1[1] < offsets2[2] /\ offsets1[2] > offsets2[1]

\* lines 20-24
Intersect(offsets1, offsets2) ==
    offsets1[1] <= offsets2[2] /\ offsets1[2] >= offsets2[1]

\* (the sentence ids are not compared)
SameSentenceUnchecked(annotation, existing_annotation) == TRUE

\* line 51: sent_id == existing_sent_id
SameSentence(annotation, existing_annotation) == annotation[1] = existing_annotation[1]

\* lines 47-53: some member of the group is of the same sentence and intersects
GroupIntersects(group, annotation) ==
    \E k \in 1..Len(group) :
        /\ SameSentence(annotation, group[k])
        /\ Intersect(<<annotation[5], annotation[6]>>, <<group[k][5], group[k][6]>>)

\* lines 43-53: the outer loop runs through every group (break leaves the inner
\* loop only), so the last group that intersects is kept; 0 stands for None
IntersectingGroup(groups, annotation) ==
    LET hits == {g \in 1..Len(groups) : GroupIntersects(groups[g], annotation)}
    IN  IF hits = {} THEN 0 ELSE CHOOSE g \in hits : \A h \in hits : h <= g

\* lines 55-58
PlaceAnnotation(groups, annotation) ==
    LET g == IntersectingGroup(groups, annotation)
    IN  IF g # 0 THEN [groups EXCEPT ![g] = Append(@, annotation)]
        ELSE Append(groups, <<annotation>>)

\* lines 37-59: the loop over the first k annotations
RECURSIVE GroupFirst(_, _)
GroupFirst(annots, k) ==
    IF k = 0 THEN <<>> ELSE PlaceAnnotation(GroupFirst(annots, k - 1), annots[k])

FindIntersectingAnnotations(annots) == GroupFirst(annots, Len(annots))

GroupAnnotations ==
    /\ group_pc = "call"
    /\ grouped_annotations' = FindIntersectingAnnotations(annotations)
    /\ group_pc' = "returned"
    /\ UNCHANGED annotations
    /\ UNCHANGED notGroup

GroupNext == GroupAnnotations

(***************************************************************************)
(* MathtagSearch.create_html_sent(userid, sentence_groups), called by      *)
(* MathtagSearch.search on the groups of find_intersecting_annotations.    *)
(* The sentence's context strings and link are read from the store and put *)
(* in the HTMLsentence unchanged; they are left out of the record here.    *)
(***************************************************************************)
\* A row of WebDBHandler.sent_token_info: the columns its SELECT names
TokenRow(text, pos) ==
    [token |-> text, whitespace |-> FALSE, pos |-> pos, lemma |-> text,
     char_start |-> 0, char_end |-> Len(text)]

\* What the store may hold as the tokens of one sentence
SentTokenInfos == {<<>>, <<TokenRow(",", "PUNCT")>>, <<TokenRow("w", "NOUN")>>}

UserIds == {0, 1}

TagIdle == html_sentences = None /\ tag_pc = "idle"

TagInit == html_sentences = None /\ tag_pc = "call"

\* lines 64-72: sorted(..., reverse=True) is stable, the groups whose first
\* row is of a favourite sentence come first
SortSentsByFavourites(userid, user_favourites, sentence_groups) ==
    IF userid # 0
    THEN LET IsFav(g) == g[1][1] \in user_favourites
             NotFav(g) == g[1][1] \notin user_favourites
         IN  <<user_favourites,
               SelectSeq(sentence_groups, IsFav) \o SelectSeq(sentence_groups, NotFav)>>
    ELSE <<{}, sentence_groups>>

\* lines 87-93 for one token: t['id'] of a row that has no such key
ColoredToken(t, tokens_with_colors) ==
    IF "id" \notin DOMAIN t THEN Raised("KeyError")
    ELSE [token |-> t.token, whitespace |-> t.whitespace, pos |-> t.pos,
          lemma |-> t.lemma, char_start |-> t.char_start, char_end |-> t.char_end,
          color |-> IF t.id \in tokens_with_colors THEN "green" ELSE "black"]

\* lines 82-94
RECURSIVE VanillaColoringLoop(_, _, _, _)
VanillaColoringLoop(toks, tokens_with_colors, k, colored_tokens) ==
    IF k > Len(toks) THEN PyList(colored_tokens)
    ELSE LET t == ColoredToken(toks[k], tokens_with_colors)
         IN  IF t.cls = "raised" THEN t
             ELSE VanillaColoringLoop(toks, tokens_with_colors, k + 1,
                                      Append(colored_tokens, t))

VanillaColoring(token_info, sent) == VanillaColoringLoop(token_info, {sent[3]}, 1, <<>>)

\* lines 110-127
RECURSIVE TagHtmlTokensLoop(_, _, _, _)
TagHtmlTokensLoop(toks, k, plain_text, yielded) ==
    IF k > Len(toks) THEN PyList(yielded)
    ELSE LET token == toks[k]
             whitespace == IF token.whitespace THEN " " ELSE ""
         IN  IF token.pos # "PUNCT"
             THEN LET flushed == IF plain_text # ""
                                 THEN Append(yielded, HTMLSpan([text |-> plain_text]))
                                 ELSE yielded
                      word == HTMLWord([text |-> token.token,
                                        pos |-> token.pos,
                                        lemma |-> token.lemma,
                                        char_start_ |-> token.char_start,
                                        char_end_ |-> token.char_end,
                                        color |-> PyStr(token.color)])
                  IN  IF word.cls = "raised" THEN word
                      ELSE TagHtmlTokensLoop(toks, k + 1, whitespace, Append(flushed, word))
             ELSE TagHtmlTokensLoop(toks, k + 1,
                                    plain_text \o token.token \o whitespace, yielded)

\* lines 136-148: the HTMLsentence of one row of a group
HtmlSentenceOf(sent, user_favs, token_info) ==
    LET tokens_info == VanillaColoring(token_info[sent[1]], sent)
    IN  IF tokens_info.cls = "raised" THEN tokens_info
        ELSE LET spans == TagHtmlTokensLoop(tokens_info.items, 1, "", <<>>)
             IN  IF spans.cls = "raised" THEN spans
                 ELSE [cls |-> "HTMLsentence",
                       id |-> sent[1],
                       tokens |-> spans.items,
                       star |-> IF sent[1] \in user_favs THEN "true" ELSE "false"]

\* lines 134-148: the two loops, from row r of group g on
RECURSIVE CreateHtmlSentLoop(_, _, _, _, _, _)
CreateHtmlSentLoop(selected_sents, user_favs, token_info, g, r, sentences) ==
    IF g > Len(selected_sents) THEN PyList(sentences)
    ELSE IF r > Len(selected_sents[g])
    THEN CreateHtmlSentLoop(selected_sents, user_favs, token_info, g + 1, 1, sentences)
    ELSE LET html_sentence == HtmlSentenceOf(selected_sents[g][r], user_favs, token_info)
         IN  IF html_sentence.cls = "raised" THEN html_sentence
             ELSE CreateHtmlSentLoop(selected_sents, user_favs, token_info, g, r + 1,
                                     Append(sentences, html_sentence))

\* lines 129-149, as called on line 159 of search
CreateHtmlSent ==
    /\ tag_pc = "call" /\ group_pc = "returned"
    /\ \E userid \in UserIds, user_favourites \in SUBSET SentenceIds,
          token_info \in [SentenceIds -> SentTokenInfos] :
          LET sorted == SortSentsByFavourites(userid, user_favourites, grouped_annotations)
          IN  html_sentences' =
                  CreateHtmlSentLoop(sorted[2], sorted[1], token_info, 1, 1, <<>>)
    /\ tag_pc' = "returned"
    /\ UNCHANGED notTag

TagSearchNext == GroupAnnotations \/ CreateHtmlSent

(***************************************************************************)
(* TFIDFRerankingModel.rank(query, ranked_formulas).  RankedFormulas holds *)
(* the parallel lists ids, formulas and scores.  A score is a float: nan,  *)
(* or the fraction num / den.  The vectorizer and the analyzer are         *)
(* collaborators: the products query_embedding . embedding of line 34 are  *)
(* an input, one level per candidate.                                      *)
(***************************************************************************)
NaN == [nan |-> TRUE, num |-> 0, den |-> 1]

Float(num, den) == [nan |-> FALSE, num |-> num, den |-> den]

\* IEEE comparison: false when either side is nan
FloatGeq(a, b) == ~a.nan /\ ~b.nan /\ a.num * b.den >= b.num * a.den

FloatLess(a, b) == ~a.nan /\ ~b.nan /\ a.num * b.den < b.num * a.den

\* Similarity levels 0, 1/2, 1 of the embedding store and of the vectorizer
ScoreLevels == 0..2

\* (fragment id, formula) of the stored formulas
StoredFormulas == {<<1, "f">>, <<2, "g">>, <<3, "f">>}

\* tfidf_weight in tenths: the default of line 25 and the value of app.py
TfidfWeights == {5, 3}

RankedFormulas(ids, formulas, scores) ==
    [cls |-> "RankedFormulas", ids |-> ids, formulas |-> formulas, scores |-> scores]

RankIdle ==
    /\ candidates = None /\ lexical = <<>> /\ tfidf_weight = 0
    /\ ranked_formulas = None /\ rank_pc = "idle"

RankInit ==
    /\ \E found \in SeqsUpTo(StoredFormulas, MaxCandidates) :
          \E levels \in [1..Len(found) -> ScoreLevels] :
             candidates = RankedFormulas([k \in 1..Len(found) |-> found[k][1]],
                                         [k \in 1..Len(found) |-> found[k][2]],
                                         [k \in 1..Len(found) |-> Float(levels[k], 2)])
    /\ lexical \in [1..Len(candidates.ids) -> ScoreLevels]
    /\ tfidf_weight \in TfidfWeights
    /\ ranked_formulas = candidates
    /\ rank_pc = "call"

SeqMin(q) == CHOOSE x \in Range(q) : \A y \in Range(q) : x <= y

SeqMax(q) == CHOOSE x \in Range(q) : \A y \in Range(q) : x >= y

\* line 35: min-max scaling; 0/0 is nan when every product is the same
MinMaxScaled(scores) ==
    LET lo == SeqMin(scores)
        hi == SeqMax(scores)
    IN  [k \in 1..Len(scores) |->
            IF hi = lo THEN NaN ELSE Float(scores[k] - lo, hi - lo)]

\* line 37: original * (1 - w) + scaled * w, with w in tenths
Blend(original, scaled, w) ==
    IF original.nan \/ scaled.nan THEN NaN
    ELSE Float(original.num * (10 - w) * scaled.den + scaled.num * w * original.den,
               10 * original.den * scaled.den)

NewScores(original_scores, scores, w) ==
    LET scaled == MinMaxScaled(scores)
    IN  [k \in 1..Len(scores) |-> Blend(original_scores[k], scaled[k], w)]

\* np.argsort: an index order that sorts the values ascending, nan last; the
\* default sort is not stable, equal values may come in any order
ArgSorts(values) ==
    LET n == Len(values)
        Before(a, b) == FloatLess(a, b) \/ (~a.nan /\ b.nan)
    IN  {perm \in [1..n -> 1..n] :
            /\ \A k, j \in 1..n : k # j => perm[k] # perm[j]
            /\ \A k, j \in 1..n : k < j => ~Before(values[perm[j]], values[perm[k]])}

\* [::-1]
Reversed(q) == [k \in 1..Len(q) |-> q[Len(q) + 1 - k]]

HasAttr(obj, name) == name \in DOMAIN obj

\* lines 29-42: what the call may return or raise.  Reading an attribute the
\* argument does not have raises AttributeError; fitting the vectorizer on no
\* document raises ValueError.
RankOutcomes(ranked, products, w) ==
    IF ~HasAttr(ranked, "formulas") THEN {Raised("AttributeError")}
    ELSE IF Len(ranked.formulas) = 0 THEN {Raised("ValueError")}
    ELSE LET new_scores == NewScores(ranked.scores, products, w)
         IN  {LET ranked_indices == Reversed(order)
                  n == Len(ranked_indices)
              IN  RankedFormulas([k \in 1..n |-> ranked.ids[ranked_indices[k]]],
                                 [k \in 1..n |-> ranked.formulas[ranked_indices[k]]],
                                 [k \in 1..n |-> new_scores[ranked_indices[k]]]) :
              order \in ArgSorts(new_scores)}

Rank ==
    /\ rank_pc = "call"
    /\ \E outcome \in RankOutcomes(ranked_formulas, lexical, tfidf_weight) :
          IF outcome.cls = "raised"
          THEN ranked_formulas' = ranked_formulas /\ rank_pc' = outcome.exception
          ELSE ranked_formulas' = outcome /\ rank_pc' = "returned"
    /\ UNCHANGED <<candidates, lexical, tfidf_weight>>
    /\ UNCHANGED notRank

RankNext == Rank

(***************************************************************************)
(* FormulaSearchService.search(formula, top_n, threshold), over            *)
(* FormulaEmbeddingRepository.find_similar_formulas.  The collection is    *)
(* what the embedding store ranks for the query: (fragment id, formula,    *)
(* similarity level), nearest first.                                       *)
(***************************************************************************)
FormulaAnnotation(fragment_id, tex_formula) ==
    [cls |-> "FormulaAnnotation", fragment_id |-> fragment_id, tex_formula |-> tex_formula]

Rankings ==
    {c \in SeqsUpTo(StoredFormulas \X ScoreLevels, MaxCandidates) :
        /\ \A k, j \in 1..Len(c) : k # j => c[k][1][1] # c[j][1][1]
        /\ \A k \in 1..(Len(c) - 1) : c[k][2] >= c[k + 1][2]}

FormulaSearchIdle ==
    /\ collection = <<>> /\ top_n = 0 /\ threshold = 0 /\ reranker = FALSE
    /\ fs_lexical = <<>> /\ formula_annotations = None /\ fs_pc = "idle"

FormulaSearchInit ==
    /\ collection \in Rankings
    /\ top_n \in 1..MaxCandidates
    /\ threshold \in ScoreLevels
    /\ reranker \in BOOLEAN
    /\ fs_lexical \in [1..Min(top_n, Len(collection)) -> ScoreLevels]
    /\ formula_annotations = None
    /\ fs_pc = "call"

\* emebdding_repo.py lines 45-53: the query gives at most top_n results, the
\* loop indexes top_n of them
FindSimilarFormulas(ranking, n) ==
    IF n > Len(ranking) THEN Raised("IndexError")
    ELSE PyList([k \in 1..n |-> FormulaAnnotation(ranking[k][1][1], ranking[k][1][2])])

\* lines 56-63: as many of the first candidates as there are scores >= threshold
ThresholdPrefix(retrieved, level) ==
    IF ~HasAttr(retrieved, "scores") THEN Raised("AttributeError")
    ELSE LET under_threshold ==
                 {k \in 1..Len(retrieved.scores) : FloatGeq(retrieved.scores[k], Float(level, 2))}
         IN  PyList([k \in 1..Cardinality(under_threshold) |->
                        FormulaAnnotation(retrieved.ids[k], retrieved.formulas[k])])

\* lines 52-63
SearchOutcomes ==
    LET retrieved == FindSimilarFormulas(collection, top_n)
    IN  IF retrieved.cls = "raised" THEN {retrieved}
        ELSE LET reranked == IF reranker
                             THEN RankOutcomes(retrieved, fs_lexical, 3)
                             ELSE {retrieved}
             IN  {IF r.cls = "raised" THEN r ELSE ThresholdPrefix(r, threshold) : r \in reranked}

FormulaSearch ==
    /\ fs_pc = "call"
    /\ formula_annotations' \in SearchOutcomes
    /\ fs_pc' = "returned"
    /\ UNCHANGED <<collection, top_n, threshold, reranker, fs_lexical>>
    /\ UNCHANGED notFormulaSearch

FormulaSearchNext == FormulaSearch

(***************************************************************************)
(* AnnotationRepository (repositories/annotation_repo.py) over the table   *)
(* annot_fragment(id AUTOINCREMENT, sent_id, char_start, char_end,         *)
(* UNIQUE(sent_id, char_start, char_end)), and                             *)
(* FormulaAnnotationService.add_formula_annotation over it and the         *)
(* embedding collection.  A row is <<id, sent_id, char_start, char_end>>.  *)
(***************************************************************************)
\* annotation_id of a fragment that has none (None; "not id" is true of it)
NoId == 0

\* (sentence id, char_start, char_end) of the fragments added
FragmentKeys == SentenceIds \X {0, 1} \X {2}

KeyOf(row) == <<row[2], row[3], row[4]>>

AnnotIdle ==
    /\ annot_fragment = {} /\ annot_seq = 0 /\ annot_conn = "None"
    /\ repo_last = [op |-> "none"] /\ embeddings = {}
    /\ fa_fragment = None /\ fa_failure = None /\ fa_outcome = None /\ fa_pc = "off"

\* The state after construction and create_tables: empty stores, no connection
AnnotInit ==
    /\ annot_fragment = {} /\ annot_seq = 0 /\ annot_conn = "None"
    /\ repo_last = [op |-> "none"] /\ embeddings = {}
    /\ fa_fragment = None /\ fa_failure = None /\ fa_outcome = None /\ fa_pc = "idle"

\* (the lookup finds nothing)
GetAnnotFragIdBlind(rows, key) == NoId

\* lines 50-58: the id of the row with this key, NoId when there is none
GetAnnotFragId(rows, key) ==
    IF \E r \in rows : KeyOf(r) = key
    THEN (CHOOSE r \in rows : KeyOf(r) = key)[1]
    ELSE NoId

\* lines 65-69: INSERT ... RETURNING id; the UNIQUE constraint rejects a key
\* that is stored.  Gives <<rows, counter, id or exception>>.
InsertAnnotFragment(rows, seq, key) ==
    IF \E r \in rows : KeyOf(r) = key
    THEN <<rows, seq, Raised("IntegrityError")>>
    ELSE <<rows \cup {<<seq + 1, key[1], key[2], key[3]>>}, seq + 1, PyInt(seq + 1)>>

\* lines 60-71: <<rows, counter, annotation_id or exception>>
AddAnnotFragment(rows, seq, key) ==
    LET id == GetAnnotFragId(rows, key)
    IN  IF id = NoId THEN InsertAnnotFragment(rows, seq, key)
        ELSE <<rows, seq, PyInt(id)>>

\* lines 105-108
DeleteAnnotFragmentById(rows, annotation_id) == {r \in rows : r[1] # annotation_id}

\* (nothing is deleted)
AnnotFragmentKept(rows, annotation_id) == rows

\* formula_annotation_service.py lines 73-75: the rows after the rollback
RollbackAnnotationFragment(rows, annotation_id) ==
    DeleteAnnotFragmentById(rows, annotation_id)

\* emebdding_repo.py lines 37-39: upsert under the fragment id
AddFormula(collection_, formula) ==
    {e \in collection_ : e[1] # formula.fragment_id}
        \cup {<<formula.fragment_id, formula.tex_formula>>}

CanInsert == annot_seq < MaxFragmentId

ServiceAtRest == fa_pc \in {"idle", "returned"}

\* A call of AnnotationRepository.add_annot_fragment from outside the service
RepoAddAnnotFragment ==
    /\ ServiceAtRest /\ CanInsert
    /\ \E key \in FragmentKeys :
          LET added == AddAnnotFragment(annot_fragment, annot_seq, key)
          IN  /\ annot_fragment' = added[1]
              /\ annot_seq' = added[2]
              /\ repo_last' = [op |-> "add", key |-> key, result |-> added[3]]
    /\ annot_conn' = "open"
    /\ UNCHANGED <<embeddings, fa_fragment, fa_failure, fa_outcome, fa_pc>>
    /\ UNCHANGED notAnnot

\* A call of AnnotationRepository.delete_annot_fragment_by_id
RepoDeleteAnnotFragmentById ==
    /\ ServiceAtRest
    /\ \E annotation_id \in 1..MaxFragmentId :
          /\ annot_fragment' = DeleteAnnotFragmentById(annot_fragment, annotation_id)
          /\ repo_last' = [op |-> "delete", id |-> annotation_id]
    /\ annot_conn' = "open"
    /\ UNCHANGED <<annot_seq, embeddings, fa_fragment, fa_failure, fa_outcome, fa_pc>>
    /\ UNCHANGED notAnnot

\* lines 110-112: has_related_entries reads other tables
RepoConditionalDelete ==
    /\ ServiceAtRest
    /\ \E annotation_id \in 1..MaxFragmentId, has_related_entries \in BOOLEAN :
          /\ annot_fragment' = IF has_related_entries THEN annot_fragment
                               ELSE DeleteAnnotFragmentById(annot_fragment, annotation_id)
          /\ repo_last' = [op |-> "conditional_delete", id |-> annotation_id]
    /\ annot_conn' = "open"
    /\ UNCHANGED <<annot_seq, embeddings, fa_fragment, fa_failure, fa_outcome, fa_pc>>
    /\ UNCHANGED notAnnot

\* add_formula_annotation lines 51-56: the fragment is stored and its id is
\* given to the formula; an exception of add_annot_fragment leaves the call
StoreFragment ==
    /\ ServiceAtRest /\ CanInsert
    /\ \E key \in FragmentKeys :
          LET added == AddAnnotFragment(annot_fragment, annot_seq, key)
          IN  /\ annot_fragment' = added[1]
              /\ annot_seq' = added[2]
              /\ repo_last' = [op |-> "add", key |-> key, result |-> added[3]]
              /\ IF added[3].cls = "raised"
                 THEN /\ fa_fragment' = None
                      /\ fa_failure' = added[3] /\ fa_outcome' = added[3]
                      /\ fa_pc' = "returned"
                 ELSE /\ fa_fragment' =
                             [annotation_id |-> added[3].value, sentence_id |-> key[1],
                              char_start |-> key[2], char_end |-> key[3],
                              annotation |-> FormulaAnnotation(added[3].value, "f")]
                      /\ fa_failure' = None /\ fa_outcome' = None
                      /\ fa_pc' = "stored"
    /\ annot_conn' = "open"
    /\ UNCHANGED embeddings
    /\ UNCHANGED notAnnot

\* line 54 when the persistence call raises: nothing is stored
StoreFragmentFails ==
    /\ ServiceAtRest
    /\ fa_fragment' = None
    /\ fa_failure' = Raised("sqlite3.OperationalError")
    /\ fa_outcome' = Raised("sqlite3.OperationalError")
    /\ fa_pc' = "returned"
    /\ UNCHANGED <<annot_fragment, annot_seq, annot_conn, repo_last, embeddings>>
    /\ UNCHANGED notAnnot

\* line 58, the add succeeds; the call returns None
AddFormulaSucceeds ==
    /\ fa_pc = "stored"
    /\ embeddings' = AddFormula(embeddings, fa_fragment.annotation)
    /\ fa_outcome' = None
    /\ fa_pc' = "returned"
    /\ UNCHANGED <<annot_fragment, annot_seq, annot_conn, repo_last, fa_fragment, fa_failure>>
    /\ UNCHANGED notAnnot

\* line 58, the embedding store raises; control goes to the except clause
AddFormulaFails ==
    /\ fa_pc = "stored"
    /\ fa_failure' = Raised("ChromaError")
    /\ fa_pc' = "except"
    /\ UNCHANGED <<annot_fragment, annot_seq, annot_conn, repo_last, embeddings,
                   fa_fragment, fa_outcome>>
    /\ UNCHANGED notAnnot

\* lines 59-61: the except clause deletes the row inside "with
\* self.annotation_repo" (which closes the connection), logs, and the call
\* returns None
Rollback ==
    /\ fa_pc = "except"
    /\ annot_fragment' =
           RollbackAnnotationFragment(annot_fragment, fa_fragment.annotation.fragment_id)
    /\ repo_last' = [op |-> "delete", id |-> fa_fragment.annotation.fragment_id]
    /\ annot_conn' = "None"
    /\ fa_outcome' = None
    /\ fa_pc' = "returned"
    /\ UNCHANGED <<annot_seq, embeddings, fa_fragment, fa_failure>>
    /\ UNCHANGED notAnnot

\* line 60 when the delete itself raises: the exception leaves the call
RollbackFails ==
    /\ fa_pc = "except"
    /\ annot_conn' = "None"
    /\ fa_outcome' = Raised("sqlite3.OperationalError")
    /\ fa_pc' = "returned"
    /\ UNCHANGED <<annot_fragment, annot_seq, repo_last, embeddings, fa_fragment, fa_failure>>
    /\ UNCHANGED notAnnot

\* emebdding_repo.py lines 41-43
DeleteFormula(collection_, formula) ==
    {e \in collection_ : e[1] # formula.fragment_id}

\* lines 77-85: delete_formula_annot_fragment of a fragment given by its key,
\* with or without its annotation_id.  A fragment without id that is not
\* stored gets None for id, and delete_formula asserts on it.
DeleteFormulaAnnotFragment ==
    /\ ServiceAtRest
    /\ \E key \in FragmentKeys, given_id \in 0..MaxFragmentId, has_related_entries \in BOOLEAN :
          LET annotation_id == IF given_id = NoId THEN GetAnnotFragId(annot_fragment, key)
                               ELSE given_id
          IN  IF annotation_id = NoId
              THEN /\ fa_outcome' = Raised("AssertionError")
                   /\ fa_failure' = Raised("AssertionError")
                   /\ repo_last' = [op |-> "get", key |-> key]
                   /\ UNCHANGED <<annot_fragment, embeddings>>
              ELSE /\ embeddings' = DeleteFormula(embeddings, FormulaAnnotation(annotation_id, "f"))
                   /\ annot_fragment' = IF has_related_entries THEN annot_fragment
                                        ELSE DeleteAnnotFragmentById(annot_fragment, annotation_id)
                   /\ repo_last' = [op |-> "conditional_delete", id |-> annotation_id]
                   /\ fa_outcome' = None
                   /\ fa_failure' = None
    /\ fa_fragment' = None
    /\ fa_pc' = "returned"
    /\ annot_conn' = "None"
    /\ UNCHANGED annot_seq
    /\ UNCHANGED notAnnot

\* The calls of the service alone, the embedding add failing or not
FormulaStoresNext ==
    \/ StoreFragment
    \/ AddFormulaSucceeds
    \/ AddFormulaFails
    \/ Rollback
    \/ DeleteFormulaAnnotFragment

AnnotNext ==
    \/ RepoAddAnnotFragment
    \/ RepoDeleteAnnotFragmentById
    \/ RepoConditionalDelete
    \/ StoreFragment
    \/ StoreFragmentFails
    \/ AddFormulaSucceeds
    \/ AddFormulaFails
    \/ Rollback
    \/ RollbackFails

(***************************************************************************)
(* SearchService.lemmaSearch and exactMatchSearch: the candidates of the   *)
(* transcript repository, then _construct_search_result over them.  A      *)
(* stored sentence is the sequence of its words; a word is its own lemma.  *)
(***************************************************************************)
\* find_pattern_in_target lines 28-48 as a function: the loop from index k on
RECURSIVE FindPatternLoop(_, _, _, _, _, _, _, _)
FindPatternLoop(pat, tgt, ms, k, pp, sk, found, current) ==
    IF k >= Len(tgt)
    THEN IF found # <<>> THEN PyList(found) ELSE None                    \* lines 49-51
    ELSE IF pp >= Len(pat) THEN Raised("IndexError")                     \* line 29
    ELSE IF pat[pp + 1] = tgt[k + 1]
         THEN IF SkipsAllowed(sk, ms)
              THEN IF pp = Len(pat) - 1
                   THEN FindPatternLoop(pat, tgt, ms, k + 1, 0, 0,
                                        Append(found, Append(current, k)), <<>>)
                   ELSE FindPatternLoop(pat, tgt, ms, k + 1, pp + 1, sk,
                                        found, Append(current, k))
              ELSE FindPatternLoop(pat, tgt, ms, k + 1, 0, 0, found, <<>>)
         ELSE FindPatternLoop(pat, tgt, ms, k + 1, pp,
                              IF current # <<>> THEN sk + 1 ELSE sk, found, current)

FindPatternInTarget(pat, tgt, ms) == FindPatternLoop(pat, tgt, ms, 0, 0, 0, <<>>, <<>>)

\* The queries asked, and the words of the stored sentences
Queries == {<<>>, <<"a">>, <<"a", "a">>, <<"a", "b">>}

StoredWords == {"a", "x"}

StoredSentences == SeqsUpTo(StoredWords, MaxSentenceLen)

ConstructIdle ==
    /\ cs_query = <<>> /\ cs_store = <<>> /\ found_sents = <<>>
    /\ cs_colored = <<>> /\ cs_result = None /\ cs_pc = "idle"

\* The store holds up to two sentences
ConstructInit ==
    /\ cs_query \in Queries
    /\ cs_store \in SeqsUpTo(StoredSentences, 2)
    /\ found_sents = <<>> /\ cs_colored = <<>> /\ cs_result = None
    /\ cs_pc = "call"

\* LIKE '%w1%w2%...%': the words occur in this order
RECURSIVE OccurInOrder(_, _)
OccurInOrder(words, sentence) ==
    IF words = <<>> THEN TRUE
    ELSE IF sentence = <<>> THEN FALSE
    ELSE IF Head(words) = Head(sentence) THEN OccurInOrder(Tail(words), Tail(sentence))
    ELSE OccurInOrder(words, Tail(sentence))

\* LIKE '%phrase%': the words occur next to each other
OccursAsPhrase(words, sentence) ==
    \E off \in 0..(Len(sentence) - Len(words)) :
        \A k \in 1..Len(words) : sentence[off + k] = words[k]

\* transcript_repo.py lines 265-282
SearchLemmatized(store, lemmatized_query) ==
    LET Like(sentence) == OccurInOrder(lemmatized_query, sentence)
    IN  SelectSeq(store, Like)

\* transcript_repo.py lines 284-301
SearchPhrase(store, phrase) ==
    LET Like(sentence) == OccursAsPhrase(phrase, sentence)
    IN  SelectSeq(store, Like)

\* line 148: "if matches" (None is falsy, a list of matches is not empty)
HasMatchesUnchecked(matched) == TRUE

HasMatches(matched) == matched # None

\* lines 149-151; indexing None raises TypeError
ColorTokensOf(sentence, qi, matched) ==
    IF matched.cls # "list" THEN Raised("TypeError")
    ELSE ColorTokens(Len(sentence), qi, matched.items)

\* lines 130-141: the tokens of the sentence are rendered into an HTMLSentence
CreateHtmlSentence(sentence, token_colors) ==
    LET toks == Tokenize([k \in 1..Len(sentence) |-> <<<<sentence[k], "NOUN">>, TRUE>>], 1, 0)
        spans == HtmlTokensGenerator(toks, token_colors)
    IN  IF spans.cls = "raised" THEN spans
        ELSE [cls |-> "HTMLSentence", tokens |-> spans.items]

\* lines 146-155: the loop from candidate k on; colored lists the sentences
\* given to _color_tokens
RECURSIVE ConstructLoop(_, _, _, _, _, _)
ConstructLoop(qi, found, by_lemma, k, html_sentences_, colored) ==
    IF k > Len(found) THEN [result |-> PyList(html_sentences_), colored |-> colored]
    ELSE LET sent == found[k]
             pat == [j \in 1..Len(qi.tokens) |->
                        IF by_lemma THEN qi.tokens[j].lemma ELSE qi.tokens[j].text]
             matched == FindPatternInTarget(pat, sent, IF by_lemma THEN 1 ELSE 0)
         IN  IF matched.cls = "raised" THEN [result |-> matched, colored |-> colored]
             ELSE IF ~HasMatches(matched)
             THEN ConstructLoop(qi, found, by_lemma, k + 1, html_sentences_, colored)
             ELSE LET tokens_color_ == ColorTokensOf(sent, qi, matched)
                      reached == Append(colored, sent)
                  IN  IF tokens_color_.cls = "raised"
                      THEN [result |-> tokens_color_, colored |-> reached]
                      ELSE LET html == CreateHtmlSentence(sent, tokens_color_.items)
                           IN  IF html.cls = "raised"
                               THEN [result |-> html, colored |-> reached]
                               ELSE ConstructLoop(qi, found, by_lemma, k + 1,
                                                  Append(html_sentences_, html), reached)

ConstructSearchResult(qi, found, by_lemma) == ConstructLoop(qi, found, by_lemma, 1, <<>>, <<>>)

\* lines 163-168
LemmaSearch ==
    /\ cs_pc = "call"
    /\ LET qi == CreateQueryInfo(cs_query)
           query_match_pattern == [j \in 1..Len(qi.tokens) |-> qi.tokens[j].lemma]
           found == SearchLemmatized(cs_store, query_match_pattern)
           out == ConstructSearchResult(qi, found, TRUE)
       IN  /\ found_sents' = found
           /\ cs_colored' = out.colored
           /\ cs_result' = out.result
    /\ cs_pc' = "lemmaSearch"
    /\ UNCHANGED <<cs_query, cs_store>>
    /\ UNCHANGED notConstruct

\* lines 157-161
ExactMatchSearch ==
    /\ cs_pc = "call"
    /\ LET qi == CreateQueryInfo(cs_query)
           found == SearchPhrase(cs_store, cs_query)
           out == ConstructSearchResult(qi, found, FALSE)
       IN  /\ found_sents' = found
           /\ cs_colored' = out.colored
           /\ cs_result' = out.result
    /\ cs_pc' = "exactMatchSearch"
    /\ UNCHANGED <<cs_query, cs_store>>
    /\ UNCHANGED notConstruct

ConstructNext == LemmaSearch \/ ExactMatchSearch

(***************************************************************************)
(* UserRepository.update_history(search_history, history_limit) over the   *)
(* table user_history(id AUTOINCREMENT, user_id, query, link, time).  A    *)
(* row is <<id, user_id, time>>; the time is an ISO timestamp, whose text  *)
(* order is the order of the instants, given here as a number.             *)
(***************************************************************************)
HistoryUsers == {1, 2}

Timestamps == 1..3

HistoryLimits == 1..2

HistoryIdle ==
    /\ user_history = {} /\ uh_seq = 0 /\ uh_last = [op |-> "none"] /\ uh_pc = "off"

HistoryInit ==
    /\ user_history = {} /\ uh_seq = 0 /\ uh_last = [op |-> "none"] /\ uh_pc = "ready"

RowsOfUser(rows, user_id) == {r \in rows : r[2] = user_id}

\* (any n rows)
AnyRows(rows, n) == {del \in SUBSET rows : Cardinality(del) = n}

\* lines 124-127: SELECT id ... ORDER BY time LIMIT n; rows of equal time come
\* in no fixed order
OldestRows(rows, n) ==
    {del \in SUBSET rows :
        /\ Cardinality(del) = n
        /\ \A r \in del, k \in rows \ del : r[3] <= k[3]}

\* lines 99-129
UpdateHistory ==
    /\ uh_pc = "ready"
    /\ uh_seq < MaxHistoryId
    /\ \E user_id \in HistoryUsers, time \in Timestamps, history_limit \in HistoryLimits :
          LET inserted == user_history \cup {<<uh_seq + 1, user_id, time>>}
              count == Cardinality(RowsOfUser(inserted, user_id))
          IN  /\ uh_last' = [op |-> "update_history", user_id |-> user_id, time |-> time,
                             history_limit |-> history_limit]
              /\ IF count > history_limit
                 THEN \E del \in OldestRows(RowsOfUser(inserted, user_id),
                                             count - history_limit) :
                         user_history' = inserted \ del
                 ELSE user_history' = inserted
    /\ uh_seq' = uh_seq + 1
    /\ UNCHANGED uh_pc
    /\ UNCHANGED notHistory

HistoryNext == UpdateHistory

(***************************************************************************)
(* Requests on separate threads over the objects app.py builds once:       *)
(* user_service.personalise_search_results enters `with self.user_repo:`,  *)
(* reads the favourites and leaves the block.  Each step is one read or    *)
(* write of UserRepository.conn, or one call on a connection.              *)
(***************************************************************************)
Threads == {1, 2}

\* the favourites table: the sentence ids each user (thread t serves user t)
\* has stored
StoredFavourites == [t \in Threads |-> IF t = 1 THEN <<1>> ELSE <<>>]

Connection(id, owner) == [cls |-> "Connection", id |-> id, owner |-> owner]

ThreadsIdle ==
    /\ ur_conn = None /\ ur_opened = 0 /\ ur_closed = {}
    /\ req_pc = [t \in Threads |-> "off"]
    /\ req_local = [t \in Threads |-> None]
    /\ req_exc = [t \in Threads |-> None]
    /\ req_result = [t \in Threads |-> None]
    /\ req_count = [t \in Threads |-> 0]

\* app.py line 28: one repository, not yet connected
ThreadsInit ==
    /\ ur_conn = None /\ ur_opened = 0 /\ ur_closed = {}
    /\ req_pc = [t \in Threads |-> "idle"]
    /\ req_local = [t \in Threads |-> None]
    /\ req_exc = [t \in Threads |-> None]
    /\ req_result = [t \in Threads |-> None]
    /\ req_count = [t \in Threads |-> 0]

\* sqlite3 with check_same_thread=True: a connection serves only the thread
\* that opened it, and a closed connection serves nobody
UseConnection(conn, t) ==
    IF conn.cls # "Connection" THEN Raised("AttributeError")
    ELSE IF conn.owner # t THEN Raised("ProgrammingError")
    ELSE IF conn.id \in ur_closed THEN Raised("ProgrammingError")
    ELSE None

\* user_repo.py lines 176-180: the rows of the user
GetUserFavorites(t) == PyList(StoredFavourites[t])

\* index.py line 61: a request thread calls personalise_search_results
StartRequest(t) ==
    /\ req_pc[t] \in {"idle", "returned"}
    /\ req_count[t] < MaxRequests
    /\ req_count' = [req_count EXCEPT ![t] = @ + 1]
    /\ req_pc' = [req_pc EXCEPT ![t] = "enter"]
    /\ req_local' = [req_local EXCEPT ![t] = None]
    /\ req_exc' = [req_exc EXCEPT ![t] = None]
    /\ req_result' = [req_result EXCEPT ![t] = None]
    /\ UNCHANGED <<ur_conn, ur_opened, ur_closed>>
    /\ UNCHANGED notThreads

\* user_repo.py line 15, from __enter__ (line 24) and from get_user_favorites
\* (line 169): if self.conn is None
ConnectTest(t) ==
    /\ req_pc[t] \in {"enter", "query"}
    /\ req_pc' = [req_pc EXCEPT ![t] =
                     IF ur_conn = None
                     THEN (IF req_pc[t] = "enter" THEN "enter_open" ELSE "query_open")
                     ELSE (IF req_pc[t] = "enter" THEN "query" ELSE "query_load")]
    /\ UNCHANGED <<ur_conn, ur_opened, ur_closed, req_local, req_exc, req_result, req_count>>
    /\ UNCHANGED notThreads

\* user_repo.py line 16: self.conn = sqlite3.connect(...)
ConnectOpen(t) ==
    /\ req_pc[t] \in {"enter_open", "query_open"}
    /\ ur_opened' = ur_opened + 1
    /\ ur_conn' = Connection(ur_opened + 1, t)
    /\ req_pc' = [req_pc EXCEPT ![t] = IF req_pc[t] = "enter_open" THEN "query" ELSE "query_load"]
    /\ UNCHANGED <<ur_closed, req_local, req_exc, req_result, req_count>>
    /\ UNCHANGED notThreads

\* user_repo.py line 170: the read of self.conn
QueryLoad(t) ==
    /\ req_pc[t] = "query_load"
    /\ req_local' = [req_local EXCEPT ![t] = ur_conn]
    /\ req_pc' = [req_pc EXCEPT ![t] = "query_execute"]
    /\ UNCHANGED <<ur_conn, ur_opened, ur_closed, req_exc, req_result, req_count>>
    /\ UNCHANGED notThreads

\* user_repo.py lines 170-180: .execute(...) on the connection read, then the
\* fetch; an exception leaves the with block through __exit__
QueryExecute(t) ==
    /\ req_pc[t] = "query_execute"
    /\ LET used == UseConnection(req_local[t], t)
       IN  IF used = None
           THEN /\ req_result' = [req_result EXCEPT ![t] = GetUserFavorites(t)]
                /\ UNCHANGED req_exc
           ELSE /\ req_exc' = [req_exc EXCEPT ![t] = used]
                /\ UNCHANGED req_result
    /\ req_pc' = [req_pc EXCEPT ![t] = "exit"]
    /\ UNCHANGED <<ur_conn, ur_opened, ur_closed, req_local, req_count>>
    /\ UNCHANGED notThreads

\* user_repo.py line 19, from __exit__ (line 28): if self.conn is not None
CloseTest(t) ==
    /\ req_pc[t] = "exit"
    /\ req_pc' = [req_pc EXCEPT ![t] = IF ur_conn # None THEN "exit_close" ELSE "return"]
    /\ UNCHANGED <<ur_conn, ur_opened, ur_closed, req_local, req_exc, req_result, req_count>>
    /\ UNCHANGED notThreads

\* user_repo.py line 20: self.conn.close(), on the value conn has now; an
\* exception raised here replaces the one the block left with
CloseConnection(t) ==
    /\ req_pc[t] = "exit_close"
    /\ LET used == UseConnection(ur_conn, t)
       IN  IF used = None \/ (used.cls = "raised" /\ ur_conn.cls = "Connection"
                                /\ ur_conn.owner = t)
           THEN /\ ur_closed' = ur_closed \cup {ur_conn.id}
                /\ req_pc' = [req_pc EXCEPT ![t] = "exit_clear"]
                /\ UNCHANGED req_exc
           ELSE /\ req_exc' = [req_exc EXCEPT ![t] = used]
                /\ req_pc' = [req_pc EXCEPT ![t] = "return"]
                /\ UNCHANGED ur_closed
    /\ UNCHANGED <<ur_conn, ur_opened, req_local, req_result, req_count>>
    /\ UNCHANGED notThreads

\* user_repo.py line 21: self.conn = None
CloseClear(t) ==
    /\ req_pc[t] = "exit_clear"
    /\ ur_conn' = None
    /\ req_pc' = [req_pc EXCEPT ![t] = "return"]
    /\ UNCHANGED <<ur_opened, ur_closed, req_local, req_exc, req_result, req_count>>
    /\ UNCHANGED notThreads

\* user_service.py lines 96-104: out of the with block; the favourites
\* reorder the caller's own results, or the exception goes to the caller
ReturnRequest(t) ==
    /\ req_pc[t] = "return"
    /\ req_result' = [req_result EXCEPT ![t] = IF req_exc[t] = None THEN @ ELSE req_exc[t]]
    /\ req_pc' = [req_pc EXCEPT ![t] = "returned"]
    /\ UNCHANGED <<ur_conn, ur_opened, ur_closed, req_local, req_exc, req_count>>
    /\ UNCHANGED notThreads

ThreadsNext ==
    \E t \in Threads :
        \/ StartRequest(t)
        \/ ConnectTest(t)
        \/ ConnectOpen(t)
        \/ QueryLoad(t)
        \/ QueryExecute(t)
        \/ CloseTest(t)
        \/ CloseConnection(t)
        \/ CloseClear(t)
        \/ ReturnRequest(t)

(***************************************************************************)
(* TranscriptRepository.sentence_context(sentence) over the table sents.   *)
(* A stored sentence is <<text_id, pos_in_text>>; its text is one per      *)
(* sentence and is given as SentText of the pair.                          *)
(***************************************************************************)
Lectures == {1, 2}

SentText(row) == PyStr(<<"sent", row[1], row[2]>>)

ContextIdle ==
    /\ sents = {} /\ ctx_sentence = <<0, 0>> /\ ctx_result = None /\ ctx_pc = "off"

\* sentence_context is called for a sentence read from the store
ContextInit ==
    /\ sents \in SUBSET (Lectures \X (0..MaxPosInText))
    /\ ctx_sentence \in sents
    /\ ctx_result = None
    /\ ctx_pc = "call"

\* lines 308-313: the rows selected, each (sent, iif(pos_in_text = :pos - 1, 0, 1))
ContextRows(rows, text_id, pos_in_text) ==
    {<<SentText(r), IF r[2] = pos_in_text - 1 THEN 0 ELSE 1>> :
        r \in {q \in rows : q[1] = text_id /\ q[2] = pos_in_text - 1}}

\* lines 315-323: (left, right) from the rows by their flag
ContextOf(context, flag) ==
    IF \E s \in context : s[2] = flag
    THEN (CHOOSE s \in context : s[2] = flag)[1]
    ELSE None

\* lines 303-323
SentenceContext ==
    /\ ctx_pc = "call"
    /\ LET context == ContextRows(sents, ctx_sentence[1], ctx_sentence[2])
       IN  ctx_result' = [left |-> ContextOf(context, 0), right |-> ContextOf(context, 1)]
    /\ ctx_pc' = "returned"
    /\ UNCHANGED <<sents, ctx_sentence>>
    /\ UNCHANGED notContext

ContextNext == SentenceContext

(***************************************************************************)
(* LectureRepository.add_lecture over the tables texts, math_branches and  *)
(* text_difficulty (filename, youtube_link and the two names UNIQUE).  A   *)
(* text row is <<id, filename, youtube_link, math_branch_id, level_id>>, a *)
(* name row <<id, name>>; lec_db holds the three tables and the            *)
(* AUTOINCREMENT counters, which a transaction commits or rolls back as    *)
(* one.                                                                    *)
(***************************************************************************)
Filenames == {"f1", "f2"}

YoutubeLinks == {"y1", "y2"}

BranchNames == {"algebra", "calculus"}

DifficultyNames == {"school", "university"}

EmptyLectureDb ==
    [texts |-> {}, math_branches |-> {}, text_difficulty |-> {},
     seq |-> [texts |-> 0, math_branches |-> 0, text_difficulty |-> 0]]

LectureIdle == lec_db = EmptyLectureDb /\ lec_last = [op |-> "none"] /\ lec_pc = "off"

\* lines 30-67: the tables after create_tables
LectureInit == lec_db = EmptyLectureDb /\ lec_last = [op |-> "none"] /\ lec_pc = "ready"

\* lines 69-95: the id of the row with the name, inserted when there is none.
\* Gives <<db, id>>.
GetOrInsertName(db, table, name) ==
    IF \E r \in db[table] : r[2] = name
    THEN <<db, (CHOOSE r \in db[table] : r[2] = name)[1]>>
    ELSE LET id == db.seq[table] + 1
         IN  <<[db EXCEPT ![table] = @ \cup {<<id, name>>}, !.seq[table] = id], id>>

\* lines 103-115: INSERT INTO texts ... RETURNING id; a stored filename or
\* youtube_link violates UNIQUE.  Gives <<db, id or exception>>.
InsertText(db, filename, youtube_link, math_branch_id, level_id) ==
    IF \E r \in db.texts : r[2] = filename \/ r[3] = youtube_link
    THEN <<db, Raised("IntegrityError")>>
    ELSE LET id == db.seq.texts + 1
         IN  <<[db EXCEPT !.texts = @ \cup {<<id, filename, youtube_link, math_branch_id, level_id>>},
                          !.seq.texts = id],
               PyInt(id)>>

\* (the statements before the failure stay)
TransactionKeeps(before, after, outcome) == after

\* line 100, "with self.conn": commit when the block ends, rollback when an
\* exception leaves it
TransactionEnd(before, after, outcome) ==
    IF outcome.cls = "raised" THEN before ELSE after

\* lines 97-116
AddLecture ==
    /\ lec_pc = "ready"
    /\ \E filename \in Filenames, youtube_link \in YoutubeLinks,
          math_branch \in BranchNames, difficulty_level \in DifficultyNames :
          LET branch == GetOrInsertName(lec_db, "math_branches", math_branch)
              level == GetOrInsertName(branch[1], "text_difficulty", difficulty_level)
              inserted == InsertText(level[1], filename, youtube_link, branch[2], level[2])
          IN  /\ lec_db' = TransactionEnd(lec_db, inserted[1], inserted[2])
              /\ lec_last' = [op |-> "add_lecture", filename |-> filename,
                              youtube_link |-> youtube_link, math_branch |-> math_branch,
                              difficulty_level |-> difficulty_level, outcome |-> inserted[2]]
    /\ UNCHANGED lec_pc
    /\ UNCHANGED notLecture

LectureNext == AddLecture

(***************************************************************************)
(* UserService.personalise_search_results(user, search_results): the       *)
(* results are HTMLSentence objects that arrive with star "false"; the     *)
(* favourites are the sentence ids get_user_favorites gives for the user.  *)
(***************************************************************************)
ResultIds == 1..3

HTMLSentenceOfId(id) == [cls |-> "HTMLSentence", id |-> id, star |-> "false"]

PersonaliseIdle ==
    /\ search_results = <<>> /\ fav_sents = {} /\ fav_sorted = None /\ per_pc = "off"

PersonaliseInit ==
    /\ \E ids \in SeqsUpTo(ResultIds, MaxResults) :
          search_results = [k \in 1..Len(ids) |-> HTMLSentenceOfId(ids[k])]
    /\ fav_sents \in SUBSET ResultIds
    /\ fav_sorted = None
    /\ per_pc = "call"

\* (sorted ascending by the key, then reversed)
SortedThenReversed(results, favs) ==
    LET IsFav(x) == x.id \in favs
        NotFav(x) == x.id \notin favs
    IN  Reversed(SelectSeq(results, NotFav) \o SelectSeq(results, IsFav))

\* lines 96-98: sorted(..., key = 1 for a favourite else 0, reverse=True); the
\* sort is stable, also with reverse
SortedByFavourite(results, favs) ==
    LET IsFav(x) == x.id \in favs
        NotFav(x) == x.id \notin favs
    IN  SelectSeq(results, IsFav) \o SelectSeq(results, NotFav)

\* lines 100-103: the loop from position k on; it stops at the first sentence
\* that is no favourite
RECURSIVE StarLoop(_, _, _)
StarLoop(sorted_, favs, k) ==
    IF k > Len(sorted_) THEN sorted_
    ELSE IF sorted_[k].id \notin favs THEN sorted_
    ELSE StarLoop([sorted_ EXCEPT ![k].star = "true"], favs, k + 1)

\* lines 91-104
PersonaliseSearchResults ==
    /\ per_pc = "call"
    /\ fav_sorted' = PyList(StarLoop(SortedByFavourite(search_results, fav_sents), fav_sents, 1))
    /\ per_pc' = "returned"
    /\ UNCHANGED <<search_results, fav_sents>>
    /\ UNCHANGED notPersonalise

PersonaliseNext == PersonaliseSearchResults

\* The components added after the grouping are at rest
ExtIdle == TagIdle /\ RankIdle /\ FormulaSearchIdle /\ AnnotIdle /\ ConstructIdle /\ HistoryIdle /\ ThreadsIdle /\ ContextIdle /\ LectureIdle /\ PersonaliseIdle

SearchInit == MatcherInit /\ RenderIdle /\ OntologyIdle /\ GroupIdle /\ ExtIdle

SpecSearch == SearchInit /\ [][SearchNext]_vars

RenderOnlyInit == RenderInit /\ MatcherIdle /\ OntologyIdle /\ GroupIdle /\ ExtIdle

SpecRender == RenderOnlyInit /\ [][RenderNext]_vars

GroupOnlyInit == GroupInit /\ MatcherIdle /\ RenderIdle /\ OntologyIdle /\ ExtIdle

SpecGroup == GroupOnlyInit /\ [][GroupNext]_vars

OntologyOnlyInit == OntologyInit /\ MatcherIdle /\ RenderIdle /\ GroupIdle /\ ExtIdle

CoreIdle == MatcherIdle /\ RenderIdle /\ OntologyIdle /\ GroupIdle

TagSearchInit ==
    /\ GroupInit /\ TagInit /\ MatcherIdle /\ RenderIdle /\ OntologyIdle
    /\ RankIdle /\ FormulaSearchIdle /\ AnnotIdle /\ ConstructIdle /\ HistoryIdle /\ ThreadsIdle
    /\ ContextIdle
    /\ LectureIdle
    /\ PersonaliseIdle

SpecTagSearch == TagSearchInit /\ [][TagSearchNext]_vars

RankOnlyInit ==
    /\ RankInit /\ CoreIdle /\ TagIdle /\ FormulaSearchIdle /\ AnnotIdle /\ ConstructIdle
    /\ HistoryIdle /\ ThreadsIdle
    /\ ContextIdle
    /\ LectureIdle
    /\ PersonaliseIdle

FormulaSearchOnlyInit ==
    /\ FormulaSearchInit /\ CoreIdle /\ TagIdle /\ RankIdle /\ AnnotIdle /\ ConstructIdle
    /\ HistoryIdle /\ ThreadsIdle
    /\ ContextIdle
    /\ LectureIdle
    /\ PersonaliseIdle

SpecFormulaSearch == FormulaSearchOnlyInit /\ [][FormulaSearchNext]_vars

AnnotOnlyInit ==
    /\ AnnotInit /\ CoreIdle /\ TagIdle /\ RankIdle /\ FormulaSearchIdle /\ ConstructIdle
    /\ HistoryIdle /\ ThreadsIdle
    /\ ContextIdle
    /\ LectureIdle
    /\ PersonaliseIdle

SpecAnnotation == AnnotOnlyInit /\ [][AnnotNext]_vars

SpecFormulaStores == AnnotOnlyInit /\ [][FormulaStoresNext]_vars

ConstructOnlyInit ==
    /\ ConstructInit /\ CoreIdle /\ TagIdle /\ RankIdle /\ FormulaSearchIdle /\ AnnotIdle
    /\ HistoryIdle /\ ThreadsIdle
    /\ ContextIdle
    /\ LectureIdle
    /\ PersonaliseIdle

SpecConstruct == ConstructOnlyInit /\ [][ConstructNext]_vars

HistoryOnlyInit ==
    /\ HistoryInit /\ CoreIdle /\ TagIdle /\ RankIdle /\ FormulaSearchIdle /\ AnnotIdle
    /\ ConstructIdle /\ ThreadsIdle
    /\ ContextIdle
    /\ LectureIdle
    /\ PersonaliseIdle

SpecHistory == HistoryOnlyInit /\ [][HistoryNext]_vars

ThreadsOnlyInit ==
    /\ ThreadsInit /\ CoreIdle /\ TagIdle /\ RankIdle /\ FormulaSearchIdle /\ AnnotIdle
    /\ ConstructIdle /\ HistoryIdle
    /\ ContextIdle
    /\ LectureIdle
    /\ PersonaliseIdle

SpecThreads == ThreadsOnlyInit /\ [][ThreadsNext]_vars

ContextOnlyInit ==
    /\ ContextInit /\ CoreIdle
    /\ TagIdle /\ RankIdle /\ FormulaSearchIdle /\ AnnotIdle /\ ConstructIdle
    /\ HistoryIdle /\ ThreadsIdle
    /\ LectureIdle
    /\ PersonaliseIdle

SpecContext == ContextOnlyInit /\ [][ContextNext]_vars

LectureOnlyInit ==
    /\ LectureInit /\ CoreIdle
    /\ TagIdle /\ RankIdle /\ FormulaSearchIdle /\ AnnotIdle /\ ConstructIdle
    /\ HistoryIdle /\ ThreadsIdle /\ ContextIdle
    /\ PersonaliseIdle

SpecLecture == LectureOnlyInit /\ [][LectureNext]_vars

PersonaliseOnlyInit ==
    /\ PersonaliseInit /\ CoreIdle
    /\ TagIdle /\ RankIdle /\ FormulaSearchIdle /\ AnnotIdle /\ ConstructIdle
    /\ HistoryIdle /\ ThreadsIdle /\ ContextIdle /\ LectureIdle

SpecPersonalise == PersonaliseOnlyInit /\ [][PersonaliseNext]_vars

SpecRank == RankOnlyInit /\ [][RankNext]_vars

SpecOntology == OntologyOnlyInit /\ [][OntologyNext]_vars

\* A call that has started runs on: the request thread is not suspended forever
SpecOntologyFair == SpecOntology /\ WF_vars(OntologyNext)

(***************************************************************************)
(* Properties of find_pattern_in_target and _color_tokens.                 *)
(***************************************************************************)
Positions == 0..(Len(target) - 1)

Returned == pc \in {"done", "colored"}

\* The occurrences of the pattern in the target in which every gap between two
\* consecutive matched elements holds at most max_skips elements, none of them
\* a query word.
GapOccurrences ==
    {occ \in [1..Len(pattern) -> Positions] :
        /\ \A j \in 1..Len(pattern) : target[occ[j] + 1] = pattern[j]
        /\ \A j \in 1..(Len(pattern) - 1) :
              /\ occ[j] < occ[j + 1]
              /\ occ[j + 1] - occ[j] - 1 <= max_skips
              /\ \A k \in (occ[j] + 1)..(occ[j + 1] - 1) : target[k + 1] \notin Range(pattern)}

\* The positions of the target that hold a query word.
QueryPositions == {k \in Positions : target[k + 1] \in Range(pattern)}

\* C1: max_skips bounds every gap on its own.  Stated where nothing else can
\* interfere, that is when the query words of the target are exactly one
\* occurrence of the pattern: if every gap of that occurrence has at most
\* max_skips elements, find_pattern_in_target returns it as its one full match.
C1_EveryGapWithinMaxSkipsIsMatched ==
    (Returned /\ Len(pattern) >= 1 /\ Cardinality(QueryPositions) = Len(pattern)) =>
        \A occ \in GapOccurrences : result = PyList(<<occ>>)

\* The singleton index lists of the positions of the target that equal the one
\* pattern element, in increasing order.
SingletonMatches ==
    LET idx == [k \in 1..Len(target) |-> k - 1]
        hits == SelectSeq(idx, LAMBDA k : target[k + 1] = pattern[1])
    IN  [k \in 1..Len(hits) |-> <<hits[k]>>]

\* C2: for a pattern of length 1 and any max_skips >= 0 the result is exactly
\* one singleton index list per position of the target equal to the pattern
\* element, in increasing order (None when there is no such position).
C2_SingleElementPatternMatchesEveryPosition ==
    (Returned /\ Len(pattern) = 1) =>
        result = (IF SingletonMatches = <<>> THEN None ELSE PyList(SingletonMatches))

\* C2 witness: a one-element pattern found twice, a non-matching element in
\* between, with skips allowed.
C2_Witness ==
    /\ pc = "done" /\ Len(pattern) = 1 /\ max_skips >= 1
    /\ result # None
    /\ Len(result.items) >= 2
    /\ result.items[2][1] - result.items[1][1] >= 2

\* The (group, place) pairs of the matches that hold position k.
GroupsAt(k) ==
    {g \in (1..Len(result.items)) \X (1..Len(pattern)) : result.items[g[1]][g[2]] = k}

\* C3: _color_tokens returns one colour per token position: the colour string
\* of query token j at the j-th index of a match group, "black" at every
\* position outside the match groups.
C3_OneColourPerPosition ==
    pc = "colored" =>
        /\ tokens_color.cls = "list"
        /\ Len(tokens_color.items) = Len(target)
        /\ \A k \in Positions :
              IF GroupsAt(k) = {}
              THEN tokens_color.items[k + 1] = PyStr("black")
              ELSE \A g \in GroupsAt(k) :
                      tokens_color.items[k + 1] = query_info.tokens[g[2]].color

(***************************************************************************)
(* Properties of _html_tokens_generator.                                   *)
(***************************************************************************)
RECURSIVE ConcatTexts(_)
ConcatTexts(spans) ==
    IF spans = <<>> THEN "" ELSE Head(spans).text \o ConcatTexts(Tail(spans))

RECURSIVE SentenceText(_)
SentenceText(toks) ==
    IF toks = <<>> THEN ""
    ELSE Head(toks).token_text \o (IF Head(toks).whitespace THEN " " ELSE "")
         \o SentenceText(Tail(toks))

\* C4: the texts of the spans the renderer yields, concatenated, are the texts
\* of the tokens with their trailing spaces: whatever is pending after the last
\* token is yielded as a final plain span.  (Stated of the calls that yield
\* their spans without raising.)
C4_SpanTextsAreTheSentenceText ==
    (render_pc = "returned" /\ html_tokens.cls = "list") =>
        ConcatTexts(html_tokens.items) = SentenceText(tokens)

IsWordToken(t) == t.pos_tag # "PUNCT"

IsWordSpan(sp) == sp.cls = "HTMLWord"

\* The positions (1-based) of the non-punctuation tokens, in order.
WordPositions ==
    SelectSeq([k \in 1..Len(tokens) |-> k], LAMBDA k : IsWordToken(tokens[k]))

\* C5: the word spans the renderer yields are, in order, the non-punctuation
\* tokens of the input, each with the token's text, part of speech and lemma and
\* the colour given at the token's index.
C5_WordSpansAreTheWordTokens ==
    render_pc = "returned" =>
        /\ html_tokens.cls = "list"
        /\ LET words == SelectSeq(html_tokens.items, IsWordSpan)
           IN  /\ Len(words) = Len(WordPositions)
               /\ \A k \in 1..Len(words) :
                     LET t == tokens[WordPositions[k]]
                     IN  /\ words[k].text = t.token_text
                         /\ words[k].pos = t.pos_tag
                         /\ words[k].lemma = t.lemma
                         /\ words[k].color = colors[WordPositions[k]]

(***************************************************************************)
(* Properties of find_tag_descendants.                                     *)
(***************************************************************************)
\* The parent -> child edges of the ontology: the row of every tag but the root
ChildEdges == {e \in Range(math_ontology) : e[1] # NoParent}

RootId == (CHOOSE e \in Range(math_ontology) : e[1] = NoParent)[2]

\* The root was stored first and is listed first
RootRowFirst == math_ontology[1][1] = NoParent

\* The nodes reachable from the nodes S through the edges E, S included
RECURSIVE Closure(_, _)
Closure(E, S) ==
    LET next == S \cup {e[2] : e \in {d \in E : d[1] \in S}}
    IN  IF next = S THEN S ELSE Closure(E, next)

\* The ontology is a tree: every tag descends from the root
IsTree == Closure(ChildEdges, {RootId}) = {e[2] : e \in Range(math_ontology)}

\* C6: find_tag_descendants returns the reflexive-transitive closure of the
\* child relation from tag_id.  (Stated of a tree listed root first.)
C6_ReturnsEveryDescendant ==
    (onto_pc = "returned" /\ RootRowFirst /\ IsTree) =>
        descendants = Closure(ChildEdges, {tag_id})

\* C7: for every tag_id, one that occurs in no edge of the graph included,
\* find_tag_descendants returns normally, with a set that holds tag_id.
\* (Stated of a tree listed root first.)
C7_ReturnsNormallyForEveryTag ==
    (onto_pc # "idle" /\ RootRowFirst /\ IsTree) =>
        /\ onto_pc \notin {"NetworkXError", "ValueError"}
        /\ onto_pc = "returned" => tag_id \in descendants

OntologyDone == onto_pc \in {"returned", "NetworkXError", "ValueError"}

\* C8: find_tag_descendants terminates on every edge list, one with a cycle
\* included, and expands each node at most once.
C8_TraversalTerminates ==
    /\ [](\A n \in DOMAIN expanded : expanded[n] <= 1)
    /\ <>OntologyDone

\* C8 witness: the traversal has returned from a graph in which two nodes it
\* expanded lie on one cycle.
C8_Witness ==
    /\ onto_pc = "returned"
    /\ \E n, m \in visited :
          /\ n # m
          /\ expanded[n] = 1 /\ expanded[m] = 1
          /\ m \in Closure(Range(mathtag_tree), {n})
          /\ n \in Closure(Range(mathtag_tree), {m})

\* C9: the graph is built from the row of every tag but the root, wherever the
\* root row stands in the list, and the result for a tag other than the root
\* never holds the root.  (Stated of a tree.)
C9_GraphExcludesExactlyTheRoot ==
    (onto_pc \notin {"idle", "call"} /\ IsTree) =>
        /\ Range(mathtag_tree) = ChildEdges
        /\ (onto_pc = "returned" /\ tag_id # RootId) => RootId \notin descendants

(***************************************************************************)
(* Properties of find_intersecting_annotations.                            *)
(***************************************************************************)
RECURSIVE Flatten(_)
Flatten(groups) == IF groups = <<>> THEN <<>> ELSE Head(groups) \o Flatten(Tail(groups))

\* The number of times each value occurs in a sequence
Occurrences(q) == [v \in Range(q) |-> Cardinality({k \in 1..Len(q) : q[k] = v})]

\* sub can be obtained from full by leaving elements out
RECURSIVE IsSubSeq(_, _)
IsSubSeq(sub, full) ==
    IF sub = <<>> THEN TRUE
    ELSE IF full = <<>> THEN FALSE
    ELSE IF Head(sub) = Head(full) THEN IsSubSeq(Tail(sub), Tail(full))
    ELSE IsSubSeq(sub, Tail(full))

\* C10: find_intersecting_annotations partitions its input: every fragment is
\* in exactly one group, none is added or dropped, the fragments of a group
\* are of one sentence, and the input order is kept inside each group and
\* among the groups (by first member).
C10_GroupsPartitionTheInput ==
    group_pc = "returned" =>
        /\ Occurrences(Flatten(grouped_annotations)) = Occurrences(annotations)
        /\ \A g \in 1..Len(grouped_annotations) :
              /\ grouped_annotations[g] # <<>>
              /\ \A a, b \in Range(grouped_annotations[g]) : a[1] = b[1]
              /\ IsSubSeq(grouped_annotations[g], annotations)
        /\ IsSubSeq([g \in 1..Len(grouped_annotations) |-> grouped_annotations[g][1]],
                    annotations)

\* C10 witness: fragments of two sentences grouped into several groups, one of
\* them with more than one fragment.
C10_Witness ==
    /\ group_pc = "returned"
    /\ Len(grouped_annotations) >= 2
    /\ \E g \in 1..Len(grouped_annotations) : Len(grouped_annotations[g]) >= 2
    /\ \E a, b \in Range(annotations) : a[1] # b[1]


(***************************************************************************)
(* Tag search rendering.                                                   *)
(***************************************************************************)
\* C11: MathtagSearch.search returns one HTMLsentence for each group of the
\* grouper, a group of several fragments giving a single sentence.
C11_OneSentencePerGroup ==
    tag_pc = "returned" =>
        /\ html_sentences.cls = "list"
        /\ Len(html_sentences.items) = Len(grouped_annotations)

(***************************************************************************)
(* Formula reranking.                                                      *)
(***************************************************************************)
\* The score line 37 gives the candidate at position k of the input
NewScoreOf(k) == NewScores(candidates.scores, lexical, tfidf_weight)[k]

\* Some one-to-one assignment of output positions to input positions under
\* which ids, formulas and scores all agree
AlignedPermutation ==
    LET n == Len(candidates.ids)
    IN  \E perm \in [1..n -> 1..n] :
           /\ \A k, j \in 1..n : k # j => perm[k] # perm[j]
           /\ \A k \in 1..n :
                 /\ ranked_formulas.ids[k] = candidates.ids[perm[k]]
                 /\ ranked_formulas.formulas[k] = candidates.formulas[perm[k]]
                 /\ ranked_formulas.scores[k] = NewScoreOf(perm[k])

NonIncreasing(scores) ==
    \A k \in 1..(Len(scores) - 1) : FloatGeq(scores[k], scores[k + 1])

\* C12: rank returns a sorted permutation of its input: the three lists keep
\* their length and stay aligned per candidate, and the scores do not increase.
\* (Stated of a candidate list that is not empty.)
C12_RankIsASortedPermutation ==
    (rank_pc \notin {"idle", "call"} /\ Len(candidates.ids) > 0) =>
        /\ rank_pc = "returned"
        /\ Len(ranked_formulas.ids) = Len(candidates.ids)
        /\ Len(ranked_formulas.formulas) = Len(candidates.ids)
        /\ Len(ranked_formulas.scores) = Len(candidates.ids)
        /\ AlignedPermutation
        /\ NonIncreasing(ranked_formulas.scores)

(***************************************************************************)
(* Formula search.                                                         *)
(***************************************************************************)
\* The candidates of the call: the first top_n of the store's ranking
Retrieved == {k \in 1..Min(top_n, Len(collection)) : TRUE}

\* The final score of candidate k: its similarity, blended with the lexical
\* score when there is a reranker
FinalScore(k) ==
    IF reranker
    THEN NewScores([j \in 1..Min(top_n, Len(collection)) |-> Float(collection[j][2], 2)],
                   fs_lexical, 3)[k]
    ELSE Float(collection[k][2], 2)

Reaching == {k \in Retrieved : FloatGeq(FinalScore(k), Float(threshold, 2))}

\* C13: search returns exactly the candidates whose final score reaches the
\* threshold, and an empty list without error when none does.  (Stated of a
\* store that holds at least top_n formulas.)
C13_SearchReturnsTheCandidatesReachingTheThreshold ==
    (fs_pc = "returned" /\ top_n <= Len(collection)) =>
        /\ formula_annotations.cls = "list"
        /\ {a.fragment_id : a \in Range(formula_annotations.items)}
               = {collection[k][1][1] : k \in Reaching}
        /\ Len(formula_annotations.items) = Cardinality(Reaching)

(***************************************************************************)
(* Formula annotations.                                                    *)
(***************************************************************************)
EmbeddingAddFailed == fa_failure = Raised("ChromaError")

\* C14: when the fragment was stored and the add to the embedding store
\* failed, the row with the id given in the call is gone when the call returns.
C14_FailedEmbeddingAddDeletesTheFragment ==
    (fa_pc = "returned" /\ fa_outcome = None /\ EmbeddingAddFailed) =>
        ~\E r \in annot_fragment : r[1] = fa_fragment.annotation_id

\* C14 witness: a call has returned after a failed embedding add, its
\* fragment had been given an id, and another fragment is still stored.
C14_Witness ==
    /\ fa_pc = "returned" /\ fa_outcome = None /\ EmbeddingAddFailed
    /\ fa_fragment.annotation_id # NoId
    /\ annot_fragment # {}

\* C15: a failure raised by a collaborator during add_formula_annotation
\* leaves the call as an exception.
C15_CollaboratorFailurePropagates ==
    (fa_pc = "returned" /\ fa_failure # None) => fa_outcome.cls = "raised"

\* No two rows of annot_fragment have the same (sent_id, char_start, char_end),
\* nor the same id
KeyIsUnique ==
    \A r1, r2 \in annot_fragment : (KeyOf(r1) = KeyOf(r2) \/ r1[1] = r2[1]) => r1 = r2

\* A step that is add_annot_fragment of a stored key: it returns the id of
\* the stored row and leaves the table as it was
AddIsIdempotent ==
    (/\ repo_last'.op = "add"
     /\ \E r \in annot_fragment : KeyOf(r) = repo_last'.key) =>
        /\ annot_fragment' = annot_fragment
        /\ \E r \in annot_fragment :
              KeyOf(r) = repo_last'.key /\ repo_last'.result = PyInt(r[1])

\* C19: (sentence id, char_start, char_end) is a key of the stored fragments
\* after any sequence of adds and deletes, and adding a stored triple again
\* returns the existing id and inserts nothing.
C19_FragmentKeyIsUniqueAndAddIdempotent ==
    []KeyIsUnique /\ [][AddIsIdempotent]_vars

\* C19 witness: the last repository call was an add of a triple that is stored
\* under an id given before the latest insert, beside another row.
C19_Witness ==
    /\ repo_last.op = "add"
    /\ repo_last.result.cls = "int"
    /\ repo_last.result.value < annot_seq
    /\ \E r \in annot_fragment : r[1] = repo_last.result.value
    /\ Cardinality(annot_fragment) >= 2

(***************************************************************************)
(* Text search: no match, and the empty query.                             *)
(***************************************************************************)
SearchReturned == cs_pc \in {"lemmaSearch", "exactMatchSearch"}

\* What the matcher says of a candidate in the search that was run
MatcherFinds(sentence) ==
    FindPatternInTarget(cs_query, sentence, IF cs_pc = "lemmaSearch" THEN 1 ELSE 0)

\* C16: when the matcher finds a full match in no candidate, the search
\* returns an empty list and raises nothing; a candidate without a full match
\* is never given to the colourizer or the renderer.  (Stated of a query that
\* is not empty.)
C16_NoMatchGivesEmptyResult ==
    (SearchReturned /\ cs_query # <<>>) =>
        /\ (\A k \in 1..Len(found_sents) : MatcherFinds(found_sents[k]) = None)
               => cs_result = PyList(<<>>)
        /\ \A k \in 1..Len(cs_colored) : MatcherFinds(cs_colored[k]).cls = "list"

\* C16 witness: a search has returned whose candidates are two sentences
\* that hold the query's words, none with a full match.
C16_Witness ==
    /\ SearchReturned /\ cs_query # <<>>
    /\ Len(found_sents) = 2
    /\ \A k \in 1..Len(found_sents) : MatcherFinds(found_sents[k]) = None
    /\ cs_result = PyList(<<>>)

\* The exceptions that say the input was not valid
ValidationErrors == {"ValueError", "ValidationError"}

\* C17: an empty query is answered with a validation error, not with an
\* index error of the matcher nor with a list of results.
C17_EmptyQueryIsAValidationError ==
    (SearchReturned /\ cs_query = <<>>) =>
        /\ cs_result.cls = "raised"
        /\ cs_result.exception \in ValidationErrors

(***************************************************************************)
(* Search history.                                                         *)
(***************************************************************************)
\* What a step of update_history does to the table: the user of the entry
\* keeps at most history_limit rows, the rows that went are rows of that user
\* no younger than any row the user keeps, nothing else is added, and the
\* rows of the other users stay
HistoryStep ==
    LET user_id == uh_last'.user_id
        inserted == user_history \cup {<<uh_seq', user_id, uh_last'.time>>}
        removed == inserted \ user_history'
    IN  /\ Cardinality(RowsOfUser(user_history', user_id)) <= uh_last'.history_limit
        /\ user_history' \subseteq inserted
        /\ \A r \in removed :
              /\ r[2] = user_id
              /\ \A k \in RowsOfUser(user_history', user_id) : r[3] <= k[3]
        /\ \A other \in HistoryUsers \ {user_id} :
              RowsOfUser(user_history', other) = RowsOfUser(user_history, other)

\* C20: after every update_history(entry, history_limit = L), L >= 1, the
\* user of the entry has at most L rows, the rows removed are that user's
\* oldest, and the rows of every other user are unchanged.
C20_HistoryIsTrimmedToTheLimit == [][HistoryStep]_vars

\* C20 witness: rows have been trimmed while both users have history, the
\* user of the last entry holding as many rows as the limit allows.
C20_Witness ==
    /\ uh_last.op = "update_history"
    /\ Cardinality(user_history) < uh_seq
    /\ \A u \in HistoryUsers : RowsOfUser(user_history, u) # {}
    /\ Cardinality(RowsOfUser(user_history, uh_last.user_id)) = uh_last.history_limit
    /\ uh_last.history_limit > 1

(***************************************************************************)
(* Concurrent requests.                                                    *)
(***************************************************************************)
\* C18: two requests on separate threads over the same service objects do
\* not disturb each other: under every interleaving, each request that has
\* completed has the result it gives when it runs alone (the favourites of
\* its user), also when the other request left its with block in between.
C18_ConcurrentRequestsAreIndependent ==
    \A t \in Threads :
        req_pc[t] = "returned" => req_result[t] = GetUserFavorites(t)

(***************************************************************************)
(* The matcher at a match point reached with too many skips.               *)
(***************************************************************************)
\* The loop is at an element equal to pattern[p] with more than max_skips
\* skips accumulated
MatchPointAfterTooManySkips ==
    /\ InLoop
    /\ p < Len(pattern)
    /\ ElementsMatched
    /\ skips > max_skips

\* What restarting from the element at i as if p = 0 leaves behind
RestartedFromThisElement ==
    IF target[i + 1] # pattern[1]
    THEN match_' = <<>> /\ p' = 0 /\ matches' = matches
    ELSE IF Len(pattern) = 1
         THEN match_' = <<>> /\ p' = 0 /\ matches' = Append(matches, <<i>>)
         ELSE match_' = <<i>> /\ p' = 1 /\ matches' = matches

\* C23: at an element equal to pattern[p] reached with more than max_skips
\* skips, find_pattern_in_target drops the match in progress and restarts at
\* this same element as if p = 0, so an element equal to pattern[0] opens the
\* new match.
C23_TooManySkipsRestartsAtThisElement ==
    [][MatchPointAfterTooManySkips => RestartedFromThisElement]_vars

(***************************************************************************)
(* The shape of what find_pattern_in_target returns.                       *)
(***************************************************************************)
\* The number of target elements inside the span of an index list that are
\* not in the list
SkippedInside(match) == (match[Len(match)] - match[1] + 1) - Len(match)

\* An index list of the pattern: one index per pattern element, strictly
\* increasing, each holding its pattern element
IsIndexList(match) ==
    /\ Len(match) = Len(pattern)
    /\ Len(match) >= 1
    /\ \A j \in 1..Len(match) :
          /\ match[j] \in Positions
          /\ target[match[j] + 1] = pattern[j]
    /\ \A j \in 1..(Len(match) - 1) : match[j] < match[j + 1]

OrderedBySentenceAndStart(annots) ==
    \A k \in 1..(Len(annots) - 1) :
        \/ annots[k][1] < annots[k + 1][1]
        \/ annots[k][1] = annots[k + 1][1] /\ annots[k][5] <= annots[k + 1][5]

\* The rule by adjacency: a fragment extends the most recent group when it is
\* of that group's sentence and starts at or after the end of the group's
\* last fragment, and starts a new group in every other case
ExtendsCurrentGroup(groups, annotation) ==
    /\ groups # <<>>
    /\ LET current == groups[Len(groups)]
           last == current[Len(current)]
       IN  annotation[1] = last[1] /\ annotation[5] >= last[6]

RECURSIVE AdjacencyGroups(_, _)
AdjacencyGroups(annots, k) ==
    IF k = 0 THEN <<>>
    ELSE LET groups == AdjacencyGroups(annots, k - 1)
         IN  IF ExtendsCurrentGroup(groups, annots[k])
             THEN [groups EXCEPT ![Len(groups)] = Append(@, annots[k])]
             ELSE Append(groups, <<annots[k]>>)

\* C25: in find_intersecting_annotations a fragment extends the current (most
\* recent) group if and only if it is of the same sentence as that group and
\* its start offset is >= the end offset of the group's last fragment, and
\* starts a new group in every other case; so the groups returned are the
\* groups this rule gives.
C25_FragmentExtendsGroupIffItStartsAfterItsEnd ==
    (group_pc = "returned" /\ OrderedBySentenceAndStart(annotations)) =>
        grouped_annotations = AdjacencyGroups(annotations, Len(annotations))

\* Two fragments of one sentence whose closed spans overlap or touch
Touching(a, b) == a[1] = b[1] /\ a[5] <= b[6] /\ b[5] <= a[6]

InUnitInterval(x) == FloatGeq(x, Float(0, 1)) /\ FloatGeq(Float(1, 1), x)

\* C27: for every candidate list that is not empty, a single candidate and
\* candidates of equal lexical similarity included, rank normalizes the
\* lexical scores to defined values inside [0,1], so every blended score it
\* returns is a defined number and no candidate fails the comparison with a
\* threshold for want of one.
C27_NormalizedScoresAreDefined ==
    (rank_pc \notin {"idle", "call"} /\ Len(candidates.ids) > 0) =>
        /\ rank_pc = "returned"
        /\ \A k \in 1..Len(lexical) : InUnitInterval(MinMaxScaled(lexical)[k])
        /\ \A k \in 1..Len(ranked_formulas.scores) :
              /\ ~ranked_formulas.scores[k].nan
              /\ FloatGeq(ranked_formulas.scores[k], Float(0, 1))

(***************************************************************************)
(* The two stores of the formula annotations.                              *)
(***************************************************************************)
\* C28: after any sequence of add_formula_annotation and
\* delete_formula_annot_fragment calls in which an embedding add may fail,
\* every fragment id in the embedding store has its annotation-fragment row
\* in the relational store; a failed add for a fragment stored before the
\* call leaves that row (and so the row of its embedding) in place.
C28_EmbeddedFragmentsHaveARow ==
    ServiceAtRest =>
        \A e \in embeddings : \E r \in annot_fragment : r[1] = e[1]

(***************************************************************************)
(* Text search: the rendered sentence holds every token.                   *)
(***************************************************************************)
\* The word spans of a rendered sentence are the words of the stored
\* sentence, in order (the stored sentences hold no punctuation)
WordSpansAre(html, sentence) ==
    LET words == SelectSeq(html.tokens, IsWordSpan)
    IN  /\ Len(words) = Len(sentence)
        /\ \A j \in 1..Len(words) : words[j].text = sentence[j]

\* C29: for every sentence lemmaSearch or exactMatchSearch returns, the colour
\* list of _color_tokens has one entry per token of the sentence, wherever
\* the matches lie, so the rendering pairs every token with a colour and the
\* rendered sentence has exactly one word span per non-punctuation token, in
\* order.
C29_RenderedSentenceHoldsEveryToken ==
    (SearchReturned /\ cs_query # <<>>) =>
        /\ \A k \in 1..Len(cs_colored) :
              LET token_colors == ColorTokensOf(cs_colored[k], CreateQueryInfo(cs_query),
                                               MatcherFinds(cs_colored[k]))
              IN  /\ token_colors.cls = "list"
                  /\ Len(token_colors.items) = Len(cs_colored[k])
        /\ cs_result.cls = "list" =>
              /\ Len(cs_result.items) = Len(cs_colored)
              /\ \A k \in 1..Len(cs_result.items) :
                    WordSpansAre(cs_result.items[k], cs_colored[k])

(***************************************************************************)
(* Sentence context.                                                       *)
(***************************************************************************)
\* The text of the stored sentence of the lecture at a position, None when
\* there is none
StoredTextAt(text_id, pos_in_text) ==
    IF <<text_id, pos_in_text>> \in sents THEN SentText(<<text_id, pos_in_text>>) ELSE None

\* C30: sentence_context(sentence) returns as left context the text of the
\* sentence of the same lecture at position_in_text - 1 and as right context
\* the text of the one at position_in_text + 1, each None only when no such
\* sentence is stored.
C30_ContextIsThePreviousAndTheNextSentence ==
    ctx_pc = "returned" =>
        /\ ctx_result.left = StoredTextAt(ctx_sentence[1], ctx_sentence[2] - 1)
        /\ ctx_result.right = StoredTextAt(ctx_sentence[1], ctx_sentence[2] + 1)

(***************************************************************************)
(* Lectures.                                                               *)
(***************************************************************************)
\* Each branch name and each difficulty name is stored once
NamesStoredOnce ==
    /\ \A a, b \in lec_db.math_branches : a[2] = b[2] => a = b
    /\ \A a, b \in lec_db.text_difficulty : a[2] = b[2] => a = b

\* A call of add_lecture for a stored filename or youtube_link raises an
\* integrity error, and a call that raises leaves the three tables as they
\* were before it
AddLectureIsAtomic ==
    /\ (\E r \in lec_db.texts : r[2] = lec_last'.filename \/ r[3] = lec_last'.youtube_link)
           => lec_last'.outcome = Raised("IntegrityError")
    /\ lec_last'.outcome.cls = "raised" =>
           /\ lec_db'.texts = lec_db.texts
           /\ lec_db'.math_branches = lec_db.math_branches
           /\ lec_db'.text_difficulty = lec_db.text_difficulty

\* C21: add_lecture is atomic: when the lecture's filename or youtube_link is
\* stored already the call raises an integrity error and texts, math_branches
\* and text_difficulty are as before the call, also when the lecture named a
\* branch or difficulty that was not stored yet; and after any sequence of
\* add_lecture calls each branch name and each difficulty name is stored once.
C21_AddLectureIsAtomic == []NamesStoredOnce /\ [][AddLectureIsAtomic]_vars

\* C21 witness: a call for a stored filename has raised, naming a branch and
\* a difficulty that are not stored.
C21_Witness ==
    /\ lec_last.op = "add_lecture"
    /\ lec_last.outcome = Raised("IntegrityError")
    /\ \E r \in lec_db.texts : r[2] = lec_last.filename
    /\ lec_db.math_branches # {}
    /\ \A r \in lec_db.math_branches : r[2] # lec_last.math_branch
    /\ \A r \in lec_db.text_difficulty : r[2] # lec_last.difficulty_level

(***************************************************************************)
(* Personalised search results.                                            *)
(***************************************************************************)
IdsOf(sentences) == [k \in 1..Len(sentences) |-> sentences[k].id]

\* C22: personalise_search_results returns a permutation of the search
\* results in which every favourite of the user precedes every sentence that
\* is none, the order inside each of the two classes is the input order, and
\* star is "true" exactly for the favourites (the results arriving with star
\* "false").
C22_FavouritesFirstInInputOrder ==
    per_pc = "returned" =>
        LET out == fav_sorted.items
            IsFav(id) == id \in fav_sents
            NotFav(id) == id \notin fav_sents
        IN  /\ fav_sorted.cls = "list"
            /\ Len(out) = Len(search_results)
            /\ Occurrences(IdsOf(out)) = Occurrences(IdsOf(search_results))
            /\ \A j, k \in 1..Len(out) :
                  (j < k /\ IsFav(out[k].id)) => IsFav(out[j].id)
            /\ SelectSeq(IdsOf(out), IsFav) = SelectSeq(IdsOf(search_results), IsFav)
            /\ SelectSeq(IdsOf(out), NotFav) = SelectSeq(IdsOf(search_results), NotFav)
            /\ \A k \in 1..Len(out) : (out[k].star = "true") <=> IsFav(out[k].id)
            /\ \A k \in 1..Len(out) : out[k].star \in {"true", "false"}

\* C22 witness: two favourites and a sentence that is none between them in
\* the input, the favourites returned first and starred.
C22_Witness ==
    /\ per_pc = "returned"
    /\ Len(search_results) = 3
    /\ search_results[1].id \in fav_sents
    /\ search_results[2].id \notin fav_sents
    /\ search_results[3].id \in fav_sents
    /\ search_results[1].id # search_results[3].id
    /\ IdsOf(fav_sorted.items) =
           <<search_results[1].id, search_results[3].id, search_results[2].id>>
    /\ fav_sorted.items[2].star = "true"

====
